---- MODULE Spec2Model ----
(***************************************************************************)
(* The per-event ingestion pipeline of the plugin server:                  *)
(* EventPipelineRunnerV2 (event-pipeline-runner.ts).  One behaviour is one *)
(* run() of one runner on one input event.  The runner is an async         *)
(* function: every action below is the code that executes between two      *)
(* awaits, with the awaited result as the action's input.                  *)
(***************************************************************************)
EXTENDS Integers, Sequences, FiniteSets, TLC

(***************************************************************************)
(* Bounds of the model.                                                    *)
(***************************************************************************)
\* An input event carries at most this many of the property keys of PropertyOptions.
MaxProps == 2
\* A valid $heatmap_data payload yields between 1 and this many sub-events.
MaxHeatmapItems == 2
\* $groups of an input event names at most this many group types.
MaxGroups == 1

(***************************************************************************)
(* Program constants.                                                      *)
(***************************************************************************)
MAX_GROUP_TYPES_PER_TEAM == 5

KAFKA_INGESTION_WARNINGS == "ingestion_warnings"
CLICKHOUSE_HEATMAPS_KAFKA_TOPIC == "heatmaps"
CLICKHOUSE_JSON_EVENTS_KAFKA_TOPIC == "events_json"
EXCEPTIONS_SYMBOLIFICATION_KAFKA_TOPIC == "exceptions_symbolification"

(***************************************************************************)
(* JavaScript values.  A value is a tagged record; an object is a function *)
(* from its own keys to values.                                            *)
(***************************************************************************)
Undefined == [t |-> "undefined"]
Null == [t |-> "null"]
JStr(s) == [t |-> "string", v |-> s]
\* a string held as the sequence of its characters
JChars(s) == [t |-> "string", v |-> s, chars |-> TRUE]
JBool(b) == [t |-> "boolean", v |-> b]
JNum(n) == [t |-> "number", v |-> n]
JObj(o) == [t |-> "object", v |-> o]

EmptyObj == [k \in {} |-> Undefined]

\* obj.hasOwnProperty(k)
Has(o, k) == k \in DOMAIN o
\* obj[k]
Get(o, k) == IF k \in DOMAIN o THEN o[k] ELSE Undefined
\* obj[k] = v
Put(o, k, v) == [x \in DOMAIN o \cup {k} |-> IF x = k THEN v ELSE o[x]]
\* delete obj[k]
Delete(o, k) == [x \in DOMAIN o \ {k} |-> o[x]]
\* { ...a, ...b }
Spread(a, b) == [x \in DOMAIN a \cup DOMAIN b |-> IF x \in DOMAIN b THEN b[x] ELSE a[x]]
\* v || {}  for a property that holds an object or is missing
OrEmpty(v) == IF v.t = "object" THEN v.v ELSE EmptyObj
\* the truthiness of a value
Truthy(v) ==
    CASE v.t = "undefined" -> FALSE
      [] v.t = "null" -> FALSE
      [] v.t = "boolean" -> v.v
      [] v.t = "number" -> v.v # 0
      [] v.t = "string" -> IF "chars" \in DOMAIN v THEN v.v # <<>> ELSE v.v # ""
      [] OTHER -> TRUE
\* JSON.stringify of an object: a member whose value is undefined is left out.
JSONStringify(o) == [json |-> [k \in {x \in DOMAIN o : o[x] # Undefined} |-> o[k]]]
\* JSON.parse of such a text
JSONParse(j) == j.json

(***************************************************************************)
(* Strings that the code inspects character by character are sequences of  *)
(* characters.                                                             *)
(***************************************************************************)
NUL == "\\u0000"
REPLACEMENT == "\\uFFFD"
Hex == {"a", "f", "0", "1"}


(***************************************************************************)
(* The environment: the team table, the skip list, the stored persons.     *)
(***************************************************************************)
TokenT1 == <<"t", "1">>
TokenT1Nul == <<"t", NUL, "1">>
TokenUnknown == <<"x">>

\* The rows of the team table (Team of types.ts, read through hub.teamManager).
Teams ==
    { [id |-> 1, project_id |-> 1, token |-> TokenT1, person_processing_opt_out |-> FALSE,
       anonymize_ips |-> FALSE, heatmaps_opt_in |-> JBool(TRUE)],
      [id |-> 2, project_id |-> 2, token |-> <<"t", "2">>, person_processing_opt_out |-> TRUE,
       anonymize_ips |-> TRUE, heatmaps_opt_in |-> JBool(FALSE)],
      [id |-> 3, project_id |-> 3, token |-> <<"t", "3">>, person_processing_opt_out |-> FALSE,
       anonymize_ips |-> TRUE, heatmaps_opt_in |-> Null] }

\* hub.eventsToSkipPersonsProcessingByToken: token -> distinct ids
eventsToSkipPersonsProcessingByToken == (TokenT1 :> {"skipme"})

\* sanitizeString (utils/db/utils): every null byte becomes U+FFFD.
sanitizeString(str) == [i \in 1..Len(str) |-> IF str[i] = NUL THEN REPLACEMENT ELSE str[i]]

\* hub.teamManager.fetchTeam(team_id): the row, or null.
fetchTeam(team_id) ==
    IF \E tm \in Teams : tm.id = team_id
    THEN [throws |-> FALSE, team |-> CHOOSE tm \in Teams : tm.id = team_id]
    ELSE [throws |-> FALSE, team |-> Null]

\* hub.teamManager.getTeamByToken(token): the row, or null; the store rejects a
\* text holding a null byte (the crash the HACK comment of getTeam speaks of).
getTeamByToken(token) ==
    IF \E i \in 1..Len(token) : token[i] = NUL
    THEN [throws |-> TRUE, team |-> Null]
    ELSE IF \E tm \in Teams : tm.token = token
         THEN [throws |-> FALSE, team |-> CHOOSE tm \in Teams : tm.token = token]
         ELSE [throws |-> FALSE, team |-> Null]

\* UUID.validateString (utils/utils), the pattern scaled down to hex "-" hex.
UUIDvalidateString(candidate) ==
    /\ Len(candidate) = 3
    /\ candidate[1] \in Hex
    /\ candidate[2] = "-"
    /\ candidate[3] \in Hex

\* sanitizeEventName (utils/db/utils): the name capped to its maximum length.
LongEventName == "long_event_name_over_the_cap"
CappedEventName == "long_event_name"
sanitizeEventName(name) == IF name = LongEventName THEN CappedEventName ELSE name

\* safeClickhouseString (utils/db/utils): a lone surrogate is escaped.
LoneSurrogateId == "d\\uD800"
EscapedSurrogateId == "d\\\\ud800"
safeClickhouseString(str) == IF str = LoneSurrogateId THEN EscapedSurrogateId ELSE str

(***************************************************************************)
(* The input events.                                                       *)
(***************************************************************************)
EventNames ==
    { "$pageview", "$identify", "$create_alias", "$merge_dangerously", "$groupidentify",
      "$$heatmap", "$$client_ingestion_warning", "$exception", "$ai_generation",
      LongEventName }

ValidUuid == <<"a", "-", "1">>
Uuids == { ValidUuid, <<"g", "-", "1">> }

\* (team_id, token, distinct_id) of an input event
Identities ==
    { <<Undefined, Undefined, "d1">>,
      <<Undefined, JChars(TokenT1), "d1">>, <<Undefined, JChars(TokenT1), "skipme">>,
      <<Undefined, JChars(TokenT1), LoneSurrogateId>>,
      <<Undefined, JChars(TokenT1Nul), "d1">>, <<Undefined, JChars(TokenUnknown), "d1">>,
      <<JNum(0), JChars(TokenT1), "d1">>,
      <<JNum(1), Undefined, "d1">>, <<JNum(1), JChars(TokenT1Nul), "d1">>,
      <<JNum(2), Undefined, "d1">>, <<JNum(3), Undefined, "d1">>,
      <<JNum(9), Undefined, "d1">>, <<JNum(9), JChars(TokenT1), "d1">> }

GroupTypeNames == <<"organization", "project", "team">>
\* a $groups object naming the first n group types
GroupsObj(n) == [g \in {GroupTypeNames[i] : i \in 1..n} |-> JStr("id of " \o g)]
\* a $heatmap_data payload of n coordinates
HeatmapData(n) == JObj("items" :> JNum(n))

\* The values a property of an input event may take, per key.  "top.$set" stands
\* for the top-level $set field of the raw event.
PropertyOptions ==
    "$process_person_profile" :> <<JBool(TRUE), JBool(FALSE), JStr("yes")>> @@
    "$set" :> <<JObj("plan" :> JStr("pro"))>> @@
    "top.$set" :> <<JObj("name" :> JStr("top"))>> @@
    "$groups" :> [n \in 1..MaxGroups |-> JObj(GroupsObj(n))] @@
    "$group_0" :> <<JStr("stale")>> @@
    "$group_type" :> <<JStr("organization")>> @@
    "$group_key" :> <<JStr("acme")>> @@
    "$heatmap_data" :> [n \in 1..(MaxHeatmapItems + 1) |->
                           IF n <= MaxHeatmapItems THEN HeatmapData(n) ELSE JStr("garbage")] @@
    "$ip" :> <<JStr("10.0.0.1"), JStr("")>> @@
    "$sentry_event_id" :> <<JStr("sid")>> @@
    "$$client_ingestion_warning_message" :> <<JStr("msg")>>

\* every choice of one value for each key of keys
BagsOver(keys) ==
    { [k \in keys |-> PropertyOptions[k][ix[k]]] :
        ix \in { f \in [keys -> 1..(MaxHeatmapItems + MaxGroups + 3)] :
                   \A k \in keys : f[k] <= Len(PropertyOptions[k]) } }

PropertyBags ==
    UNION { BagsOver(keys) :
            keys \in { ks \in SUBSET (DOMAIN PropertyOptions) : Cardinality(ks) <= MaxProps } }

\* The raw event built from an identity, a uuid, a name and a property bag.
RawEvent(ident, uuid, name, bag) ==
    [ team_id |-> ident[1], token |-> ident[2], distinct_id |-> ident[3],
      uuid |-> uuid, event |-> name,
      set |-> Get(bag, "top.$set"),
      properties |-> Delete(bag, "top.$set") ]

\* $groupidentify events that carry their type, their key and property payloads
GroupIdentifyEvents ==
    { RawEvent(<<Undefined, JChars(TokenT1), "d1">>, ValidUuid, "$groupidentify",
               "$group_type" :> JStr("organization") @@ "$group_key" :> JStr("acme") @@ payload) :
        payload \in { "$group_set" :> JObj("name" :> JStr("new")),
                      "$group_set_once" :> JObj("tier" :> JStr("paid") @@ "since" :> JStr("2020")),
                      "$group_set" :> JObj("name" :> JStr("new"))
                          @@ "$group_set_once"
                               :> JObj("tier" :> JStr("paid") @@ "since" :> JStr("2020")) } }

\* events of several groups, some with a $group_<i> key of their own
ManyGroupsEvents ==
    { RawEvent(<<Undefined, JChars(TokenT1), "d1">>, ValidUuid, name,
               "$groups" :> JObj(GroupsObj(MaxGroups + 1)) @@ extra) :
        name \in { "$pageview", "$groupidentify" },
        extra \in { "$group_0" :> JStr("stale"),
                    "$group_type" :> JStr("organization") @@ "$group_key" :> JStr("acme"),
                    "$process_person_profile" :> JBool(FALSE) @@ "$group_0" :> JStr("stale") } }

Inputs ==
    { RawEvent(ident, uuid, name, bag) :
        ident \in Identities, uuid \in Uuids, name \in EventNames, bag \in PropertyBags }
    \cup GroupIdentifyEvents \cup ManyGroupsEvents


(***************************************************************************)
(* Further collaborators of the runner.                                    *)
(***************************************************************************)
\* normalizeProcessPerson (utils/event-utils): with person processing disabled
\* the person related keys are removed.  The $group_<i> keys are left to
\* createKafkaEvent (the TODO there).
normalizeProcessPerson(ev, processPerson) ==
    IF processPerson
    THEN ev
    ELSE [ev EXCEPT !.set = Undefined,
                    !.properties = Delete(Delete(Delete(@, "$set"), "$set_once"), "$unset")]

\* normalizeEvent (utils/event-utils): the top-level $set is extracted into
\* properties.$set.
utils_normalizeEvent(ev) ==
    IF Truthy(ev.set)
    THEN [ev EXCEPT !.properties =
              Put(@, "$set", JObj(Spread(OrEmpty(Get(@, "$set")), ev.set.v)))]
    ELSE ev

\* parseEventTimestamp (utils/timestamps): no timestamp, sent_at or offset on
\* the modelled events, so now().
parseEventTimestamp(ev) == JStr("now")

\* processAiEvent (utils/ai-costs): the cost fields are derived.
utils_processAiEvent(ev) ==
    [ev EXCEPT !.properties = Put(@, "$ai_total_cost_usd", JNum(1))]

\* extractHeatmapData (utils/heatmaps): one sub-event per coordinate; a payload
\* that is no object makes it throw.
extractHeatmapData(ev) ==
    LET hd == Get(ev.properties, "$heatmap_data") IN
    IF hd = Undefined THEN [throws |-> FALSE, events |-> <<>>]
    ELSE IF hd.t = "object"
         THEN [throws |-> FALSE,
               events |-> [i \in 1..hd.v["items"].v |->
                             [team_id |-> ev.team_id, distinct_id |-> ev.distinct_id, n |-> i]]]
         ELSE [throws |-> TRUE, events |-> <<>>]

\* hogTransformer.transformEventAndProduceMessages(ev): result.event is missing
\* (a transformation dropped the event), the event as it was, or a changed copy
\* of it.
transformEventAndProduceMessages(ev) ==
    { Null, JObj(ev), JObj([ev EXCEPT !.properties = Put(@, "$transformed", JBool(TRUE))]) }

\* The person rows PersonState.update() may return.
Persons ==
    { [uuid |-> "person-1", created_at |-> "t0", force_upgrade |-> FALSE, properties |-> EmptyObj],
      [uuid |-> "person-2", created_at |-> "t0", force_upgrade |-> FALSE,
       properties |-> ("plan" :> JStr("free") @@ "email" :> JStr("e"))],
      [uuid |-> "person-3", created_at |-> "t0", force_upgrade |-> TRUE,
       properties |-> ("plan" :> JStr("free") @@ "email" :> JStr("e"))] }

\* The results of GroupTypeManager.fetchGroupTypeIndex: an index, or null.
GroupTypeIndexes == { Null } \cup { JNum(i) : i \in 0..(MAX_GROUP_TYPES_PER_TEAM - 1) }

\* GroupTypeManager.fetchGroupTypeIndex(team, project, groupType), given the
\* lookups made so far: a type keeps its index, and no two types share one.
fetchGroupTypeIndex(lookups, groupType) ==
    IF \E i \in 1..Len(lookups) : lookups[i].groupType = groupType
    THEN { lookups[CHOOSE i \in 1..Len(lookups) : lookups[i].groupType = groupType].index }
    ELSE { Null } \cup
         { ix \in GroupTypeIndexes \ { Null } :
             \A i \in 1..Len(lookups) : lookups[i].index # ix }

\* the row of the group acme before the event
ExistingGroup == "name" :> JStr("old") @@ "tier" :> JStr("free")

\* upsertGroup (utils/groups-updater): the properties given overwrite the row's
upsertGroup(row, properties) == Spread(row, properties)

\* `$group_${index}`
GroupKey(index) == "$group_" \o ToString(index)

(***************************************************************************)
(* The identity engine behind PersonState.update(): the persons and the    *)
(* distinct-id mappings of one team, as tables of rows.  An event reads    *)
(* the rows it needs, computes its writes from what it read, and commits   *)
(* them if the rows are still as read (optimistic concurrency).            *)
(***************************************************************************)
\* property writes are taken while the person's version is below this
MaxPersonVersion == 1
\* the bound of the retry loop
MaxRetries == 1
PersonTeamId == 1
DistinctIds == {"a", "b", "c"}
\* the uuids the generator may give, in lexicographic order
PersonUuids == <<"p1", "p2", "p3">>
PersonUuidSet == {PersonUuids[i] : i \in 1..Len(PersonUuids)}
UuidRank == [u \in PersonUuidSet |-> CHOOSE i \in 1..Len(PersonUuids) : PersonUuids[i] = u]
NoUuid == "none"
Workers == {"w1", "w2"}
MergeEventNames == {"$identify", "$create_alias", "$merge_dangerously"}

\* a place of the persons table: no row yet, a row, a deleted row, or a row the
\* reader did not read
AbsentPerson == [state |-> "absent"]
DeletedPerson == [state |-> "deleted"]
UnreadPerson == [state |-> "unread"]
NewPerson(created_at) ==
    [state |-> "live", created_at |-> created_at, properties |-> EmptyObj,
     is_identified |-> FALSE, version |-> 0]
IsLive(p) == p.state = "live"

EmptyPersonStore == [persons |-> [u \in PersonUuidSet |-> AbsentPerson], mappings |-> {}]
IdleWorker == [status |-> "idle", error |-> ""]
IdleWorkers == [w \in Workers |-> IdleWorker]

\* the events the engine is given: first sightings, events with a property
\* payload, and the linking events with their second distinct-id
\* ($anon_distinct_id or alias)
PersonEvent(name, d, o, set, set_once, unset) ==
    [event |-> name, distinct_id |-> d, other |-> o,
     set |-> set, set_once |-> set_once, unset |-> unset]
PlainPersonEvents ==
    { PersonEvent("$pageview", d, d, EmptyObj, EmptyObj, {}) : d \in DistinctIds }
    \cup { PersonEvent("$pageview", "a", "a", "plan" :> JStr("pro"),
                       "plan" :> JStr("free") @@ "email" :> JStr("e"), {"name"}) }
LinkPersonEvents ==
    { PersonEvent("$identify", d, o, EmptyObj, EmptyObj, {}) :
        d \in DistinctIds, o \in DistinctIds \ {"c"} }
    \cup { PersonEvent("$create_alias", "a", "b", EmptyObj, EmptyObj, {}),
           PersonEvent("$merge_dangerously", "b", "c", EmptyObj, EmptyObj, {}) }
PersonEvents == PlainPersonEvents \cup LinkPersonEvents

\* the distinct-ids an event names
IdsOf(ev) == {ev.distinct_id, ev.other}

\* the mapping rows of a distinct-id, and the person it maps to
MappingsOf(store, d) ==
    {m \in store.mappings : m.team_id = PersonTeamId /\ m.distinct_id = d}
personIdOf(store, d) ==
    IF MappingsOf(store, d) = {} THEN NoUuid
    ELSE (CHOOSE m \in MappingsOf(store, d) : TRUE).person_id

\* what an event reads: the mapping rows of its distinct-ids, the persons they
\* map to, and every mapping row of those persons
ReadRows(store, ev) ==
    LET touched == {personIdOf(store, d) : d \in IdsOf(ev)} \ {NoUuid} IN
    [persons |-> [u \in PersonUuidSet |->
                     IF u \in touched THEN store.persons[u] ELSE UnreadPerson],
     mappings |-> {m \in store.mappings :
                     m.distinct_id \in IdsOf(ev) \/ m.person_id \in touched}]

\* the insertion of a mapping row
addDistinctId(store, d, uuid) ==
    [store EXCEPT !.mappings = @ \cup
        {[team_id |-> PersonTeamId, distinct_id |-> d, person_id |-> uuid, version |-> 0]}]

\* ensurePerson(team_id, distinct_id): without a mapping, a new person with the
\* generated uuid and no properties, and its mapping
ensurePerson(store, d, uuid, created_at) ==
    IF personIdOf(store, d) # NoUuid
    THEN store
    ELSE addDistinctId([store EXCEPT !.persons[uuid] = NewPerson(created_at)], d, uuid)

\* applySetProperties(person, $set, $set_once, $unset): a new property map and a
\* bumped version
applySetProperties(p, set, set_once, unset) ==
    LET filled == Spread(Spread(set_once, p.properties), set) IN
    [p EXCEPT !.properties = [k \in DOMAIN filled \ unset |-> filled[k]],
              !.version = @ + 1]

\* a plain event: the person is ensured and the payloads, if any, applied
updateProperties(store, ev, uuid, now) ==
    LET s1 == ensurePerson(store, ev.distinct_id, uuid, now)
        u == personIdOf(s1, ev.distinct_id)
    IN IF ev.set = EmptyObj /\ ev.set_once = EmptyObj /\ ev.unset = {}
       THEN s1
       ELSE [s1 EXCEPT !.persons[u] = applySetProperties(@, ev.set, ev.set_once, ev.unset)]

\* is_identified is set on the person two distinct-ids were linked to
markIdentified(store, u) ==
    IF store.persons[u].is_identified
    THEN store
    ELSE [store EXCEPT !.persons[u].is_identified = TRUE, !.persons[u].version = @ + 1]

\* the survivor of a merge: greatest is_identified, then earliest created_at,
\* then smallest uuid
chooseSurvivor(store, u1, u2) ==
    LET p1 == store.persons[u1]
        p2 == store.persons[u2]
    IN IF p1.is_identified # p2.is_identified
       THEN (IF p1.is_identified THEN u1 ELSE u2)
       ELSE IF p1.created_at # p2.created_at
            THEN (IF p1.created_at < p2.created_at THEN u1 ELSE u2)
            ELSE (IF UuidRank[u1] < UuidRank[u2] THEN u1 ELSE u2)

\* the merge that leaves the loser's distinct-ids where they are
mergePersons_keepsMappings(store, u1, u2) ==
    LET b == chooseSurvivor(store, u1, u2)
        a == IF b = u1 THEN u2 ELSE u1
        A == store.persons[a]
        B == store.persons[b]
    IN [persons |-> [store.persons EXCEPT
                        ![a] = DeletedPerson,
                        ![b] = [B EXCEPT
                                  !.properties = Spread(A.properties, B.properties),
                                  !.created_at = IF A.created_at < @ THEN A.created_at ELSE @,
                                  !.is_identified = TRUE,
                                  !.version = @ + 1]],
        mappings |-> store.mappings]

\* the merge of A into B: every distinct-id of A is reassigned to B with a
\* bumped mapping version, B keeps its properties and takes A's where it has
\* none, created_at is the earlier one, is_identified is set, A is deleted
mergePersons(store, u1, u2) ==
    LET b == chooseSurvivor(store, u1, u2)
        a == IF b = u1 THEN u2 ELSE u1
        A == store.persons[a]
        B == store.persons[b]
    IN [persons |-> [store.persons EXCEPT
                        ![a] = DeletedPerson,
                        ![b] = [B EXCEPT
                                  !.properties = Spread(A.properties, B.properties),
                                  !.created_at = IF A.created_at < @ THEN A.created_at ELSE @,
                                  !.is_identified = TRUE,
                                  !.version = @ + 1]],
        mappings |-> {IF m.person_id = a
                      THEN [m EXCEPT !.person_id = b, !.version = @ + 1]
                      ELSE m : m \in store.mappings}]

\* the linking that writes the person again when both distinct-ids have it
linkDistinctIds_rewrites(store, ev, uuid, now) ==
    LET d == ev.distinct_id
        o == ev.other
        pd == personIdOf(store, d)
        po == personIdOf(store, o)
    IN IF d = o THEN ensurePerson(store, d, uuid, now)
       ELSE IF pd = NoUuid /\ po = NoUuid
            THEN markIdentified(
                    addDistinctId(ensurePerson(store, d, uuid, now), o, uuid), uuid)
       ELSE IF pd = NoUuid THEN markIdentified(addDistinctId(store, d, po), po)
       ELSE IF po = NoUuid THEN markIdentified(addDistinctId(store, o, pd), pd)
       ELSE IF pd = po THEN [store EXCEPT !.persons[pd].version = @ + 1]
       ELSE mergePersons(store, pd, po)

\* $identify, $create_alias, $merge_dangerously: the second distinct-id is
\* linked to the person of distinct_id; two different persons are merged, one
\* person for both is left alone
linkDistinctIds(store, ev, uuid, now) ==
    LET d == ev.distinct_id
        o == ev.other
        pd == personIdOf(store, d)
        po == personIdOf(store, o)
    IN IF d = o THEN ensurePerson(store, d, uuid, now)
       ELSE IF pd = NoUuid /\ po = NoUuid
            THEN markIdentified(
                    addDistinctId(ensurePerson(store, d, uuid, now), o, uuid), uuid)
       ELSE IF pd = NoUuid THEN markIdentified(addDistinctId(store, d, po), po)
       ELSE IF po = NoUuid THEN markIdentified(addDistinctId(store, o, pd), pd)
       ELSE IF pd = po THEN store
       ELSE mergePersons(store, pd, po)

\* the identity processing of one event on the rows it read
processPersonEvent(rows, ev, uuid, now) ==
    IF ev.event \in MergeEventNames
    THEN linkDistinctIds(rows, ev, uuid, now)
    ELSE updateProperties(rows, ev, uuid, now)

\* the commit that writes without comparing the rows with what was read
commitRows_unvalidated(store, ev, read, written) ==
    [ok |-> TRUE,
     store |-> [persons |-> [u \in PersonUuidSet |->
                               IF written.persons[u] # UnreadPerson
                               THEN written.persons[u] ELSE store.persons[u]],
                mappings |-> (store.mappings \ read.mappings) \cup written.mappings]]

\* the commit: if the rows are as they were read, the rows written replace
\* them; otherwise nothing is written
commitRows(store, ev, read, written) ==
    IF ReadRows(store, ev) # read
    THEN [ok |-> FALSE, store |-> store]
    ELSE [ok |-> TRUE,
          store |-> [persons |-> [u \in PersonUuidSet |->
                                    IF written.persons[u] # UnreadPerson
                                    THEN written.persons[u] ELSE store.persons[u]],
                     mappings |-> (store.mappings \ read.mappings) \cup written.mappings]]

(***************************************************************************)
(* The state: the fields of the runner, the metrics, the producer.         *)
(***************************************************************************)
VARIABLES
    originalEvent,      \* the event given to the constructor
    event,              \* this.event
    team,               \* this.team
    promises,           \* this.promises
    shouldProcessPerson,\* this.shouldProcessPerson
    timestamp,          \* this.timestamp
    person,             \* this.person
    result,             \* result.event of _run: what the transformer returned
    pc,                 \* the await run() is suspended at
    outcome,            \* of run(): "running", "returned" or "threw"
    error,              \* the error run() threw
    groupsLeft,         \* the entries of $groups the loop of processGroups has yet to visit
    eventDroppedCounter,                    \* the samples of eventDroppedCounter
    droppedEventFromTransformationsCounter, \* the value of that counter
    produced,           \* the calls of hub.kafkaProducer.produce
    queued,             \* the calls of hub.kafkaProducer.queueMessages
    groupUpserts,       \* the calls of upsertGroup
    groupTypeLookups,   \* the calls of fetchGroupTypeIndex and what they returned
    personStore,        \* the persons and the distinct-id mappings
    personWorkers,      \* the event each worker of the identity engine is processing
    seenDistinctIds,    \* the distinct-ids of the events the identity engine has processed
    consumer,           \* the batch the consumer is processing and the completions it holds
    server,             \* the fields of the PluginServer
    configInputs,       \* the config given to the constructor, and defaultConfig
    startCall,          \* the await start() is suspended at, the service loaders, the joins
    stopCalls,          \* the calls of stop(), in order: their error and where they are
    nodeProcess,        \* the process: its listeners, the calls made in it, its exit code
    steps               \* the steps of the pipeline invoked so far, in order

vars ==
    << originalEvent, event, team, promises, shouldProcessPerson, timestamp, person, result, pc,
       outcome, error, groupsLeft, eventDroppedCounter,
       droppedEventFromTransformationsCounter, produced, queued, groupUpserts,
       groupTypeLookups, personStore, personWorkers, seenDistinctIds, consumer, server,
       configInputs, startCall, stopCalls, nodeProcess, steps >>

\* the state of the runner, the state of the identity engine, the state of the consumer
runnerVars ==
    << originalEvent, event, team, promises, shouldProcessPerson, timestamp, person, result, pc,
       outcome, error, groupsLeft, eventDroppedCounter,
       droppedEventFromTransformationsCounter, produced, queued, groupUpserts,
       groupTypeLookups, steps >>
personVars == << personStore, personWorkers, seenDistinctIds >>
consumerVars == << consumer >>
serverVars == << server, configInputs, startCall, stopCalls, nodeProcess >>

\* The current state as one record, the form the methods below take and return.
Cur ==
    [ originalEvent |-> originalEvent, event |-> event, team |-> team, promises |-> promises,
      shouldProcessPerson |-> shouldProcessPerson, timestamp |-> timestamp,
      person |-> person, result |-> result, pc |-> pc, outcome |-> outcome, error |-> error,
      groupsLeft |-> groupsLeft, eventDroppedCounter |-> eventDroppedCounter,
      droppedEventFromTransformationsCounter |-> droppedEventFromTransformationsCounter,
      produced |-> produced, queued |-> queued, groupUpserts |-> groupUpserts,
      groupTypeLookups |-> groupTypeLookups,
      steps |-> steps ]

\* the caller's event if the constructor had kept its properties map in this.event
originalEventOf_sharedProperties(s) == [s.originalEvent EXCEPT !.properties = s.event.properties]

\* The caller's event after a step: this.event and this.event.properties are
\* copies made by the constructor, so no write on them reaches the event given.
originalEventOf(s) == s.originalEvent

\* the runner becomes s
RunnerBecomes(s) ==
    /\ originalEvent' = originalEventOf(s)
    /\ event' = s.event
    /\ team' = s.team
    /\ promises' = s.promises
    /\ shouldProcessPerson' = s.shouldProcessPerson
    /\ timestamp' = s.timestamp
    /\ person' = s.person
    /\ result' = s.result
    /\ pc' = s.pc
    /\ outcome' = s.outcome
    /\ error' = s.error
    /\ groupsLeft' = s.groupsLeft
    /\ eventDroppedCounter' = s.eventDroppedCounter
    /\ droppedEventFromTransformationsCounter' = s.droppedEventFromTransformationsCounter
    /\ produced' = s.produced
    /\ queued' = s.queued
    /\ groupUpserts' = s.groupUpserts
    /\ groupTypeLookups' = s.groupTypeLookups
    /\ steps' = s.steps

\* a step of the runner: nothing else changes
Becomes(s) ==
    /\ RunnerBecomes(s)
    /\ UNCHANGED personVars
    /\ UNCHANGED consumerVars
    /\ UNCHANGED serverVars

NoError == [class |-> "none", ingestionWarning |-> "", doNotSendToDLQ |-> FALSE,
            ingestionWarningDetails |-> Undefined]

\* new EventDroppedError(ingestionWarning, options)
EventDroppedError(ingestionWarning, doNotSendToDLQ, ingestionWarningDetails) ==
    [class |-> "EventDroppedError", ingestionWarning |-> ingestionWarning,
     doNotSendToDLQ |-> IF doNotSendToDLQ = Undefined THEN FALSE ELSE doNotSendToDLQ.v,
     ingestionWarningDetails |-> ingestionWarningDetails]

\* any error that is no EventDroppedError
OtherError(name) == [class |-> "Error", ingestionWarning |-> name, doNotSendToDLQ |-> FALSE,
                     ingestionWarningDetails |-> Undefined]

\* The errors PersonState.update() may reject with: a conflict after the retries,
\* or a drop that carries a details map.
PersonStateErrors ==
    { OtherError("PersonUpdateConflict"),
      EventDroppedError("person_update_dropped", Undefined,
                        JObj("reason" :> JStr("merge not allowed"))) }

\* the constructor
Construct(ev) ==
    [ originalEvent |-> ev,
      event |-> [ev EXCEPT !.team_id = IF ev.team_id = Undefined THEN JNum(-1) ELSE ev.team_id],
      team |-> Null, promises |-> <<>>, shouldProcessPerson |-> TRUE, timestamp |-> Undefined,
      person |-> Null, result |-> Undefined, pc |-> "constructed", outcome |-> "running",
      error |-> NoError,
      groupsLeft |-> <<>>, eventDroppedCounter |-> <<>>,
      droppedEventFromTransformationsCounter |-> 0, produced |-> <<>>, queued |-> <<>>,
      groupUpserts |-> <<>>, groupTypeLookups |-> <<>>, steps |-> <<>> ]

Step(s, name) == [s EXCEPT !.steps = Append(@, name)]

\* A promise pushed on this.promises: what it is the completion of, and how it
\* has settled so far: failure is the error the call underneath rejected with,
\* reason the error the pushed promise rejected with, and logged says that its
\* catch handler wrote to status.
Pending(kind, topic, what) ==
    [kind |-> kind, topic |-> topic, what |-> what, state |-> "pending", failure |-> "",
     reason |-> "", logged |-> FALSE]

Return(s) == [s EXCEPT !.outcome = "returned", !.pc = "done"]

(***************************************************************************)
(* The methods of EventPipelineRunnerV2.                                   *)
(***************************************************************************)
captureIngestionWarning(s, warning, details_) ==
    LET details == Spread("eventUuid" :> JChars(s.event.uuid) @@ "event" :> JStr(s.event.event)
                          @@ "distinctId" :> JStr(s.event.distinct_id), details_)
        message ==
            [topic |-> KAFKA_INGESTION_WARNINGS,
             value |-> JSONStringify(
                 "team_id" :> (IF s.team = Null THEN Undefined ELSE JNum(s.team.id))
                 @@ "type" :> JStr(warning)
                 @@ "source" :> JStr("plugin-server")
                 @@ "details" :> JStr(JSONStringify(details))
                 @@ "timestamp" :> JStr("now"))]
    IN [s EXCEPT !.queued = Append(@, message),
                 !.promises = Append(@, Pending("queueMessages", KAFKA_INGESTION_WARNINGS,
                                                warning))]

\* dropEvent without the increment
dropEvent_uncounted(s, dropCause) == s

dropEvent(s, dropCause) ==
    [s EXCEPT !.eventDroppedCounter =
        Append(@, [event_type |-> "analytics", drop_cause |-> dropCause])]

\* the catch of run() without the warning
run_catch_silent(s, err) ==
    [s EXCEPT !.outcome = "threw", !.error = err, !.pc = "done"]

\* The catch of run(): a warning for an EventDroppedError, then the rethrow.
run_catch(s, err) ==
    LET s1 == IF err.class = "EventDroppedError"
              THEN captureIngestionWarning(s, err.ingestionWarning,
                       IF err.ingestionWarningDetails = Undefined
                       THEN EmptyObj ELSE err.ingestionWarningDetails.v)
              ELSE s
    IN [s1 EXCEPT !.outcome = "threw", !.error = err, !.pc = "done"]

\* getTeam that goes on to the token when the team_id yields no team
getTeam_fallsBackToToken(ev) ==
    LET byId == IF Truthy(ev.team_id) THEN fetchTeam(ev.team_id.v)
                ELSE [throws |-> FALSE, team |-> Null]
    IN IF byId.team # Null THEN byId
       ELSE IF Truthy(ev.token)
            THEN getTeamByToken(sanitizeString(ev.token.v))
            ELSE [throws |-> FALSE, team |-> Null]

\* getTeam that looks the token up as it came
getTeam_unsanitized(ev) ==
    IF Truthy(ev.team_id)
    THEN fetchTeam(ev.team_id.v)
    ELSE IF Truthy(ev.token)
         THEN getTeamByToken(ev.token.v)
         ELSE [throws |-> FALSE, team |-> Null]

getTeam(ev) ==
    IF Truthy(ev.team_id)
    THEN fetchTeam(ev.team_id.v)
    ELSE IF Truthy(ev.token)
         THEN getTeamByToken(sanitizeString(ev.token.v))
         ELSE [throws |-> FALSE, team |-> Null]

\* validateUuid that accepts every uuid
validateUuid_acceptsAll(s) ==
    IF s.outcome # "running" THEN s ELSE Step(s, "validateUuid")

validateUuid(s) ==
    IF s.outcome # "running" THEN s
    ELSE IF ~UUIDvalidateString(s.event.uuid)
         THEN run_catch(Step(s, "validateUuid"),
                        EventDroppedError("invalid_event_uuid", Undefined, Undefined))
         ELSE Step(s, "validateUuid")

PersonEventNames == {"$identify", "$create_alias", "$merge_dangerously", "$groupidentify"}

\* the team-level opt-out left out
teamOptOutOverride_ignored(tm, properties) == properties

\* the team-level opt-out overrides the event's $process_person_profile
teamOptOutOverride(tm, properties) ==
    IF tm.person_processing_opt_out
    THEN Put(properties, "$process_person_profile", JBool(FALSE))
    ELSE properties

\* the skip list, keyed by the token of the original event
skipListOverride(ev, token, properties) ==
    IF /\ token.t = "string"
       /\ token.v \in DOMAIN eventsToSkipPersonsProcessingByToken
       /\ ev.distinct_id \in eventsToSkipPersonsProcessingByToken[token.v]
    THEN Put(properties, "$process_person_profile", JBool(FALSE))
    ELSE properties

validatePersonProcessing(s) ==
    IF s.outcome # "running" THEN s
    ELSE
    LET properties == skipListOverride(s.event, s.originalEvent.token,
                          teamOptOutOverride(s.team, s.event.properties))
        s1 == Step([s EXCEPT !.event.properties = properties], "validatePersonProcessing")
        processPersonProfile == Get(properties, "$process_person_profile")
    IN  IF processPersonProfile = JBool(FALSE)
        THEN IF s1.event.event \in PersonEventNames
             THEN run_catch(s1, EventDroppedError(
                      "invalid_event_when_process_person_profile_is_false",
                      JBool(TRUE), Undefined))
             ELSE [s1 EXCEPT !.event = normalizeProcessPerson(@, FALSE),
                             !.shouldProcessPerson = FALSE]
        ELSE IF processPersonProfile # Undefined /\ processPersonProfile.t # "boolean"
             THEN captureIngestionWarning(s1, "invalid_process_person_profile",
                      "$process_person_profile" :> processPersonProfile)
             ELSE s1

\* normalizeEvent without the sanitizing of the name
normalizeEvent_keepsName(s) ==
    LET ev2 == utils_normalizeEvent(s.event)
        ev3 == normalizeProcessPerson(ev2, s.shouldProcessPerson)
    IN Step([s EXCEPT !.event = ev3, !.timestamp = parseEventTimestamp(ev3)], "normalizeEvent")

normalizeEvent(s) ==
    LET ev1 == [s.event EXCEPT !.event = sanitizeEventName(@)]
        ev2 == utils_normalizeEvent(ev1)
        ev3 == normalizeProcessPerson(ev2, s.shouldProcessPerson)
    IN Step([s EXCEPT !.event = ev3, !.timestamp = parseEventTimestamp(ev3)], "normalizeEvent")

processAiEvent(s, aiThrows) ==
    IF s.event.event \in {"$ai_generation", "$ai_embedding"} /\ ~aiThrows
    THEN Step([s EXCEPT !.event = utils_processAiEvent(@)], "processAiEvent")
    ELSE Step(s, "processAiEvent")

\* trackFirstEventIngestion that does not keep the promise
trackFirstEventIngestion_uncollected(s) == Step(s, "trackFirstEventIngestion")

trackFirstEventIngestion(s) ==
    Step([s EXCEPT !.promises = Append(@, Pending("setTeamIngestedEvent", "", "team"))],
         "trackFirstEventIngestion")

\* team?.heatmaps_opt_in !== false
heatmapsOptedIn(tm) == tm = Null \/ tm.heatmaps_opt_in # JBool(FALSE)

\* processHeatmaps without its final deletion
deleteHeatmapData_skipped(properties) == properties

\* the deletion that ends processHeatmaps
deleteHeatmapData(properties) == Delete(properties, "$heatmap_data")

\* processHeatmaps with a catch that queues nothing
processHeatmaps_silent(s) ==
    LET r == extractHeatmapData(s.event)
        s1 == IF ~heatmapsOptedIn(s.team) \/ r.throws THEN s
              ELSE [s EXCEPT
                     !.produced = @ \o [i \in 1..Len(r.events) |->
                           [topic |-> CLICKHOUSE_HEATMAPS_KAFKA_TOPIC,
                            key |-> s.event.uuid,
                            value |-> [json |-> r.events[i]]]],
                     !.promises = @ \o [i \in 1..Len(r.events) |->
                           Pending("produce", CLICKHOUSE_HEATMAPS_KAFKA_TOPIC, "heatmap")]]
    IN Step([s1 EXCEPT !.event.properties = deleteHeatmapData(@)], "processHeatmaps")

processHeatmaps(s) ==
    LET r == extractHeatmapData(s.event)
        optedIn == heatmapsOptedIn(s.team)
        s1 == IF ~optedIn THEN s
              ELSE IF r.throws
                   THEN captureIngestionWarning(s, "invalid_heatmap_data",
                                                "eventUuid" :> JChars(s.event.uuid))
                   ELSE [s EXCEPT
                          !.produced = @ \o [i \in 1..Len(r.events) |->
                                [topic |-> CLICKHOUSE_HEATMAPS_KAFKA_TOPIC,
                                 key |-> s.event.uuid,
                                 value |-> [json |-> r.events[i]]]],
                          !.promises = @ \o [i \in 1..Len(r.events) |->
                                Pending("produce", CLICKHOUSE_HEATMAPS_KAFKA_TOPIC,
                                        "heatmap")]]
    IN Step([s1 EXCEPT !.event.properties = deleteHeatmapData(@)],
            "processHeatmaps")


\* the $ip of an anonymizing team is removed
anonymizeIp(tm, properties) ==
    IF Truthy(Get(properties, "$ip")) /\ tm.anonymize_ips
    THEN Delete(properties, "$ip")
    ELSE properties

\* createKafkaEvent without the loop over the group keys
stripGroupKeys_skipped(properties) == properties

\* the loop that deletes $group_0 .. $group_(MAX_GROUP_TYPES_PER_TEAM - 1)
stripGroupKeys(properties) ==
    [k \in DOMAIN properties \ {GroupKey(i) : i \in 0..(MAX_GROUP_TYPES_PER_TEAM - 1)}
        |-> properties[k]]

\* the spread with the person's properties last
eventPersonProperties_personWins(p, properties, processPerson) ==
    IF processPerson
    THEN JSONStringify(Spread(OrEmpty(Get(properties, "$set")), p.properties))
    ELSE JSONStringify(EmptyObj)

\* eventPersonProperties of createKafkaEvent
eventPersonProperties(p, properties, processPerson) ==
    IF processPerson
    THEN JSONStringify(Spread(p.properties, OrEmpty(Get(properties, "$set"))))
    ELSE JSONStringify(EmptyObj)

\* personMode with the two tests in the other order
personModeOf_disabledFirst(p, processPerson) ==
    IF ~processPerson THEN "propertyless"
    ELSE IF p.force_upgrade THEN "force_upgrade"
    ELSE "full"

\* personMode of createKafkaEvent
personModeOf(p, processPerson) ==
    IF p.force_upgrade THEN "force_upgrade"
    ELSE IF ~processPerson THEN "propertyless"
    ELSE "full"

\* createKafkaEvent: the properties it leaves on this.event
createKafkaEvent_properties(s) ==
    LET p1 == anonymizeIp(s.team, s.event.properties)
    IN IF s.shouldProcessPerson THEN p1 ELSE stripGroupKeys(p1)

\* the record with the distinct_id of the event before the pipeline ran
createKafkaEvent_record_unescaped(s) ==
    [ uuid |-> s.event.uuid,
      event |-> safeClickhouseString(s.event.event),
      properties |-> JSONStringify(s.event.properties),
      timestamp |-> s.timestamp.v,
      team_id |-> s.team.id,
      project_id |-> s.team.project_id,
      distinct_id |-> s.event.distinct_id,
      elements_chain |-> "",
      created_at |-> "now",
      person_id |-> s.person.uuid,
      person_properties |-> eventPersonProperties(s.person, s.event.properties,
                                                  s.shouldProcessPerson),
      person_created_at |-> s.person.created_at,
      person_mode |-> personModeOf(s.person, s.shouldProcessPerson) ]

\* createKafkaEvent: the record it returns, given the state it left
createKafkaEvent_record(s) ==
    [ uuid |-> s.event.uuid,
      event |-> safeClickhouseString(s.event.event),
      properties |-> JSONStringify(s.event.properties),
      timestamp |-> s.timestamp.v,
      team_id |-> s.team.id,
      project_id |-> s.team.project_id,
      distinct_id |-> safeClickhouseString(s.event.distinct_id),
      elements_chain |-> "",
      created_at |-> "now",
      person_id |-> s.person.uuid,
      person_properties |-> eventPersonProperties(s.person, s.event.properties,
                                                  s.shouldProcessPerson),
      person_created_at |-> s.person.created_at,
      person_mode |-> personModeOf(s.person, s.shouldProcessPerson) ]

createKafkaEvent(s) ==
    Step([s EXCEPT !.event.properties = createKafkaEvent_properties(s)], "createKafkaEvent")

produceExceptionSymbolificationEventStep(s, kafkaEvent) ==
    Step([s EXCEPT
            !.produced = Append(@, [topic |-> EXCEPTIONS_SYMBOLIFICATION_KAFKA_TOPIC,
                                    key |-> kafkaEvent.uuid,
                                    value |-> [json |-> kafkaEvent]]),
            !.promises = Append(@, Pending("produce", EXCEPTIONS_SYMBOLIFICATION_KAFKA_TOPIC,
                                           "event"))],
         "produceExceptionSymbolificationEventStep")

produceEventToKafka(s, kafkaEvent) ==
    Step([s EXCEPT
            !.produced = Append(@, [topic |-> CLICKHOUSE_JSON_EVENTS_KAFKA_TOPIC,
                                    key |-> kafkaEvent.uuid,
                                    value |-> [json |-> kafkaEvent]]),
            !.promises = Append(@, Pending("produce", CLICKHOUSE_JSON_EVENTS_KAFKA_TOPIC,
                                           "event"))],
         "produceEventToKafka")

\* the routing test without the $sentry_event_id part
isExceptionForSymbolification_anyException(ev) == ev.event = "$exception"

\* _run without the cut-off for heatmaps
isHeatmapEvent_never(ev) == FALSE

\* the routing test of _run
isExceptionForSymbolification(ev) ==
    ev.event = "$exception" /\ ~Has(ev.properties, "$sentry_event_id")

\* the cut-off of _run for heatmaps
isHeatmapEvent(ev) == ev.event = "$$heatmap"

(***************************************************************************)
(* _run, cut at its awaits.                                                *)
(***************************************************************************)
\* from the team to the call of the cookieless manager
run_afterGetTeam(s, tm) ==
    LET s1 == [s EXCEPT !.team = tm] IN
    IF tm = Null
    THEN Return(dropEvent(s1, "invalid_token"))
    ELSE
    LET s2 == [s1 EXCEPT !.event.team_id = JNum(tm.id)] IN
    IF s2.event.event = "$$client_ingestion_warning"
    THEN Return(captureIngestionWarning(s2, "client_ingestion_warning",
             "message" :> Get(s2.event.properties, "$$client_ingestion_warning_message")))
    ELSE
    LET s3 == validatePersonProcessing(validateUuid(s2)) IN
    IF s3.outcome # "running" THEN s3
    ELSE IF isHeatmapEvent(s3.event)
         THEN Return(processHeatmaps(normalizeEvent(s3)))
         ELSE [Step(s3, "cookieless") EXCEPT !.pc = "cookieless"]

\* _run going from the cookieless result straight to the person
run_afterCookieless_skipsTransformer(s, postCookielessEvent) ==
    IF postCookielessEvent = Null
    THEN Return([s EXCEPT !.droppedEventFromTransformationsCounter = @ + 1])
    ELSE [Step(normalizeEvent(processAiEvent(s, FALSE)), "processPerson")
            EXCEPT !.pc = "person"]

\* from the cookieless result to the call of the transformer
run_afterCookieless(s, postCookielessEvent) ==
    IF postCookielessEvent = Null
    THEN Return([s EXCEPT !.droppedEventFromTransformationsCounter = @ + 1])
    ELSE [Step(s, "transformEventAndProduceMessages") EXCEPT !.pc = "transform"]

\* _run going on with an event the transformer dropped
run_afterTransform_continues(s, resultEvent, aiThrows) ==
    [Step(normalizeEvent(processAiEvent([s EXCEPT !.result = resultEvent], aiThrows)),
          "processPerson")
       EXCEPT !.pc = "person"]

\* from the transformer's result to the call of PersonState.update
run_afterTransform(s, resultEvent, aiThrows) ==
    LET s1 == [s EXCEPT !.result = resultEvent] IN
    IF resultEvent = Null
    THEN Return([s1 EXCEPT !.droppedEventFromTransformationsCounter = @ + 1])
    ELSE [Step(normalizeEvent(processAiEvent(s1, aiThrows)), "processPerson")
            EXCEPT !.pc = "person"]

\* from the end of processGroups to the end of _run
run_afterGroups(s) ==
    LET s1 == createKafkaEvent(processHeatmaps(trackFirstEventIngestion(s)))
        kafkaEvent == createKafkaEvent_record(s1)
    IN IF isExceptionForSymbolification(s1.event)
       THEN Return(produceExceptionSymbolificationEventStep(s1, kafkaEvent))
       ELSE Return(produceEventToKafka(s1, kafkaEvent))

\* processGroups after its loop: the $groupidentify part, up to its first await
processGroups_afterLoop(s) ==
    IF s.event.event = "$groupidentify"
    THEN IF \/ ~Truthy(Get(s.event.properties, "$group_type"))
            \/ ~Truthy(Get(s.event.properties, "$group_key"))
         THEN run_afterGroups(s)
         ELSE [Step(s, "fetchGroupTypeIndex") EXCEPT !.pc = "groupIdentifyType"]
    ELSE run_afterGroups(s)

\* processGroups without its first test
processGroups_unguarded(s) ==
    LET groups == OrEmpty(Get(s.event.properties, "$groups"))
        entries == SelectSeq(GroupTypeNames, LAMBDA g : g \in DOMAIN groups)
    IN IF entries = <<>>
       THEN processGroups_afterLoop(Step(s, "processGroups"))
       ELSE [Step(Step(s, "processGroups"), "fetchGroupTypeIndex")
               EXCEPT !.pc = "groupType", !.groupsLeft = entries]

\* processGroups up to its first await
processGroups(s) ==
    IF ~s.shouldProcessPerson
    THEN run_afterGroups(Step(s, "processGroups"))
    ELSE LET groups == OrEmpty(Get(s.event.properties, "$groups"))
             entries == SelectSeq(GroupTypeNames, LAMBDA g : g \in DOMAIN groups)
         IN IF entries = <<>>
            THEN processGroups_afterLoop(Step(s, "processGroups"))
            ELSE [Step(Step(s, "processGroups"), "fetchGroupTypeIndex")
                    EXCEPT !.pc = "groupType", !.groupsLeft = entries]

\* from the person to the first await of processGroups
run_afterPerson(s, p) ==
    processGroups([s EXCEPT !.person = p,
                            !.promises = Append(@, Pending("kafkaAck", "", "person"))])

\* the loop of processGroups setting $group_0 for a type without an index
processGroups_loop_setsOnNull(s, columnIndex) ==
    LET groupType == Head(s.groupsLeft)
        groupIdentifier == OrEmpty(Get(s.event.properties, "$groups"))[groupType]
        s1 == [s EXCEPT !.event.properties =
                  Put(@, GroupKey(IF columnIndex # Null THEN columnIndex.v ELSE 0),
                      groupIdentifier),
                        !.groupTypeLookups =
                  Append(@, [from |-> "$groups", groupType |-> groupType,
                             index |-> columnIndex])]
        s2 == [s1 EXCEPT !.groupsLeft = Tail(@)]
    IN IF s2.groupsLeft = <<>>
       THEN processGroups_afterLoop(s2)
       ELSE Step(s2, "fetchGroupTypeIndex")

\* one turn of the loop of processGroups, resumed with the index of the type
processGroups_loop(s, columnIndex) ==
    LET groupType == Head(s.groupsLeft)
        groupIdentifier == OrEmpty(Get(s.event.properties, "$groups"))[groupType]
        s0 == [s EXCEPT !.groupTypeLookups =
                  Append(@, [from |-> "$groups", groupType |-> groupType,
                             index |-> columnIndex])]
        s1 == IF columnIndex # Null
              THEN [s0 EXCEPT !.event.properties =
                        Put(@, GroupKey(columnIndex.v), groupIdentifier)]
              ELSE s0
        s2 == [s1 EXCEPT !.groupsLeft = Tail(@)]
    IN IF s2.groupsLeft = <<>>
       THEN processGroups_afterLoop(s2)
       ELSE Step(s2, "fetchGroupTypeIndex")

\* the $groupidentify part, resumed with the index of $group_type
processGroups_groupIdentify(s, groupTypeIndex) ==
    LET s0 == [s EXCEPT !.groupTypeLookups =
                  Append(@, [from |-> "$group_type",
                             groupType |-> Get(s.event.properties, "$group_type").v,
                             index |-> groupTypeIndex])]
        groupPropertiesToSet == OrEmpty(Get(s.event.properties, "$group_set"))
    IN
    IF groupTypeIndex # Null
    THEN [Step([s0 EXCEPT !.groupUpserts = Append(@,
                    [team_id |-> s.team.id, groupTypeIndex |-> groupTypeIndex.v,
                     groupKey |-> Get(s.event.properties, "$group_key"),
                     properties |-> groupPropertiesToSet,
                     row |-> upsertGroup(ExistingGroup, groupPropertiesToSet)])],
               "upsertGroup")
            EXCEPT !.pc = "upsertGroup"]
    ELSE run_afterGroups(s0)

(***************************************************************************)
(* PluginServer (server.ts).  The methods take and return the record sv of *)
(* the server's fields, the calls of start() and stop() and the process.   *)
(***************************************************************************)
\* Signals and uncaught exceptions call stop() at most this many times in a run.
MaxStopCalls == 2

\* The capabilities that push a service loader, in the order of the pushes, and
\* the services that have a batchConsumer.
Services == {"ingestionV2", "cdpProcessedEvents"}
HasBatchConsumer == {"ingestionV2"}

\* what stop() awaits besides the services, and what it calls after
PubsubStop == "pubsub.stop"
PosthogShutdown == "posthog.shutdown"
Flush == "kafkaProducer.flush"
CloseHub == "closeHub"
ProcessExit == "process.exit"
Calls == Services \cup {PubsubStop, PosthogShutdown, Flush, CloseHub, ProcessExit}

\* an Error thrown or rejected with
ErrorOf(message) == JObj("message" :> JStr(message))

\* defaultConfig of config/config.ts, as the environment of the process sets it
DefaultConfigs ==
    { "PLUGIN_SERVER_MODE" :> Null @@ "CAPTURE_CONFIG_REDIS_HOST" :> Null
          @@ "HTTP_SERVER_PORT" :> JStr("6738"),
      "PLUGIN_SERVER_MODE" :> Null @@ "CAPTURE_CONFIG_REDIS_HOST" :> JStr("redis")
          @@ "HTTP_SERVER_PORT" :> JStr("6738") }

\* the configs a caller gives to the constructor
CallerConfigs ==
    { "PLUGIN_SERVER_MODE" :> Null @@ "CAPTURE_CONFIG_REDIS_HOST" :> Null
          @@ "HTTP_SERVER_PORT" :> JStr("6738"),
      "PLUGIN_SERVER_MODE" :> JStr("ingestion-v2") @@ "CAPTURE_CONFIG_REDIS_HOST" :> Null
          @@ "HTTP_SERVER_PORT" :> JStr("8000"),
      "PLUGIN_SERVER_MODE" :> JStr("cdp-processed-events") }

\* the constructor: this.config = { ...config, ...defaultConfig }
constructor(config, defaultConfig) ==
    [config |-> Spread(config, defaultConfig), pubsub |-> Undefined, services |-> {},
     httpServer |-> Undefined, stopping |-> FALSE, hub |-> Undefined]

\* start() and the process before start() is called
NotStarted == [pc |-> "notCalled", capabilities |-> {},
               loaders |-> [s \in {} |-> "loading"], joins |-> [s \in {} |-> "pending"]]
NewProcess == [listeners |-> FALSE, invoked |-> [c \in Calls |-> 0], exitCode |-> Undefined]

\* the call is made once more
Invoke(sv, calls) ==
    [sv EXCEPT !.nodeProcess.invoked =
        [c \in Calls |-> IF c \in calls THEN @[c] + 1 ELSE @[c]]]

\* process.exit with 1 if any call of stop() so far was given an error
processExit_anyError(sv, i) ==
    [Invoke(sv, {ProcessExit}) EXCEPT
        !.nodeProcess.exitCode =
            JNum(IF \E j \in DOMAIN sv.stopCalls : Truthy(sv.stopCalls[j].error)
                 THEN 1 ELSE 0),
        !.stopCalls[i].pc = "exited"]

\* process.exit(error ? 1 : 0) of the call of stop() at position i
processExit(sv, i) ==
    [Invoke(sv, {ProcessExit}) EXCEPT
        !.nodeProcess.exitCode = JNum(IF Truthy(sv.stopCalls[i].error) THEN 1 ELSE 0),
        !.stopCalls[i].pc = "exited"]

\* stop() called while this.stopping is set: it logs and returns
stop_alreadyStopping(sv, err) ==
    [sv EXCEPT !.stopCalls =
        Append(@, [error |-> err, pc |-> "returned", loaded |-> {},
                   awaited |-> [c \in {} |-> "pending"]])]

\* what stop() hands to Promise.allSettled: the pubsub if there is one, the
\* services of this.services, posthog
shutdownCalls(sv) ==
    (IF sv.server.pubsub = Undefined THEN {} ELSE {PubsubStop})
        \cup sv.server.services \cup {PosthogShutdown}

\* stop() as the first call: up to the await of Promise.allSettled
stop_shutdown(sv, err) ==
    [Invoke(sv, shutdownCalls(sv)) EXCEPT
        !.server.stopping = TRUE,
        !.server.httpServer = IF @ = Undefined THEN @ ELSE JStr("closed"),
        !.stopCalls =
            Append(@, [error |-> err, pc |-> "allSettled",
                       loaded |-> {s \in DOMAIN sv.startCall.loaders :
                                      sv.startCall.loaders[s] = "ready"},
                       awaited |-> [c \in shutdownCalls(sv) |-> "pending"]])]

\* stop() without the test of this.stopping
stop_unguarded(sv, err) == stop_shutdown(sv, err)

\* stop(err)
stop(sv, err) ==
    IF sv.server.stopping THEN stop_alreadyStopping(sv, err) ELSE stop_shutdown(sv, err)

\* Promise.allSettled not awaited
allSettled_notAwaited(awaited) == TRUE

\* the promise of Promise.allSettled resolves: every promise has settled
allSettled(awaited) == \A c \in DOMAIN awaited : awaited[c] # "pending"

\* stop() after Promise.allSettled: the flush if there is a hub, the exit if not
stop_afterAllSettled(sv, i) ==
    IF sv.server.hub # Undefined
    THEN [Invoke(sv, {Flush}) EXCEPT !.stopCalls[i].pc = "flush",
                                     !.stopCalls[i].awaited = @ @@ (Flush :> "pending")]
    ELSE processExit(sv, i)

\* stop() after the flush and the delay: closeHub
stop_afterFlush(sv, i, ok) ==
    IF ok
    THEN [Invoke(sv, {CloseHub}) EXCEPT
             !.stopCalls[i].pc = "closeHub",
             !.stopCalls[i].awaited = [@ EXCEPT ![Flush] = "fulfilled"] @@ (CloseHub :> "pending")]
    ELSE [sv EXCEPT !.stopCalls[i].pc = "threw", !.stopCalls[i].awaited[Flush] = "rejected"]

\* stop() after closeHub: the exit
stop_afterCloseHub(sv, i, ok) ==
    IF ok
    THEN processExit([sv EXCEPT !.stopCalls[i].awaited[CloseHub] = "fulfilled"], i)
    ELSE [sv EXCEPT !.stopCalls[i].pc = "threw", !.stopCalls[i].awaited[CloseHub] = "rejected"]

\* start(): every loader has resolved
start_ready(sv) ==
    [sv EXCEPT !.server.services = @ \cup DOMAIN sv.startCall.loaders,
               !.server.httpServer = JStr("listening"),
               !.startCall.joins =
                   [s \in DOMAIN sv.startCall.loaders \cap HasBatchConsumer |-> "pending"],
               !.startCall.pc = "returned"]

\* start() enters the try: the loaders are built and called
start_loadServices(sv) ==
    LET loading == [sv EXCEPT !.startCall.loaders =
                                 [s \in sv.startCall.capabilities |-> "loading"],
                              !.startCall.pc = "loading"]
    IN IF sv.startCall.capabilities = {} THEN start_ready(loading) ELSE loading

\* start() after pubsub.start(): the redis client of the capture config, if any
start_afterPubsub(sv) ==
    IF Truthy(Get(sv.server.config, "CAPTURE_CONFIG_REDIS_HOST"))
    THEN [sv EXCEPT !.startCall.pc = "createRedisClient"]
    ELSE start_loadServices(sv)

\* a loader settles: Promise.all rejects with the first failure, and the catch
\* calls stop(err); it resolves when every loader has
start_loaderSettled(sv, s, ok) ==
    LET settled == [sv EXCEPT !.startCall.loaders[s] = IF ok THEN "ready" ELSE "failed"]
    IN IF sv.startCall.pc # "loading" THEN settled
       ELSE IF ~ok
       THEN stop([settled EXCEPT !.startCall.pc = "catch"], ErrorOf("loader failed"))
       ELSE IF \A t \in DOMAIN settled.startCall.loaders : settled.startCall.loaders[t] = "ready"
       THEN start_ready(settled)
       ELSE settled

(***************************************************************************)
(* The actions.                                                            *)
(***************************************************************************)

\* a runner constructed on one of the events
InitRunner(ev) ==
        LET c == Construct(ev) IN
        /\ originalEvent = c.originalEvent
        /\ event = c.event
        /\ team = c.team
        /\ promises = c.promises
        /\ shouldProcessPerson = c.shouldProcessPerson
        /\ timestamp = c.timestamp
        /\ person = c.person
        /\ result = c.result
        /\ pc = c.pc
        /\ outcome = c.outcome
        /\ error = c.error
        /\ groupsLeft = c.groupsLeft
        /\ eventDroppedCounter = c.eventDroppedCounter
        /\ droppedEventFromTransformationsCounter = c.droppedEventFromTransformationsCounter
        /\ produced = c.produced
        /\ queued = c.queued
        /\ groupUpserts = c.groupUpserts
        /\ groupTypeLookups = c.groupTypeLookups
        /\ steps = c.steps

\* no batch has been pulled
NoBatch == [position |-> "idle", batch |-> <<>>, processed |-> 0, collected |-> 0,
            held |-> 0, pendingHeld |-> 0, pendingNotHeld |-> 0, rejected |-> FALSE]

\* the identity engine before it is used
InitIdentity ==
    /\ personStore = EmptyPersonStore
    /\ personWorkers = IdleWorkers
    /\ seenDistinctIds = {}

\* a server constructed on one of the configs
InitServerOn(configs, defaults) ==
    \E config \in configs, defaultConfig \in defaults :
        /\ configInputs = [config |-> config, defaultConfig |-> defaultConfig]
        /\ server = constructor(config, defaultConfig)
        /\ startCall = NotStarted
        /\ stopCalls = <<>>
        /\ nodeProcess = NewProcess

\* the identity engine, the consumer and the server before they are used
InitRest ==
    /\ InitIdentity
    /\ consumer = NoBatch
    /\ InitServerOn({EmptyObj}, {EmptyObj})

InitOn(events) ==
    \E ev \in events :
        /\ InitRunner(ev)
        /\ InitRest

Init == InitOn(Inputs)

\* run() is called: _run calls getTeam and awaits it
RunStart ==
    /\ pc = "constructed"
    /\ Becomes([Step(Cur, "getTeam") EXCEPT !.pc = "getTeam"])

\* getTeam settles
TeamResolved ==
    /\ pc = "getTeam"
    /\ LET r == getTeam(originalEvent) IN
       IF r.throws
       THEN Becomes(run_catch(Cur, OtherError("team lookup failed")))
       ELSE Becomes(run_afterGetTeam(Cur, r.team))

\* cookielessManager.processEvent settles, with an event or with null
CookielessResolved ==
    /\ pc = "cookieless"
    /\ \E postCookielessEvent \in {Null, JObj(event)} :
          Becomes(run_afterCookieless(Cur, postCookielessEvent))

\* hogTransformer.transformEventAndProduceMessages settles; result.event is an
\* event or missing
TransformResolved ==
    /\ pc = "transform"
    /\ \E resultEvent \in transformEventAndProduceMessages(event) :
       \E aiThrows \in {FALSE, event.event = "$ai_generation"} :
          Becomes(run_afterTransform(Cur, resultEvent, aiThrows))

\* PersonState.update settles with a person and the acknowledgement
PersonResolved ==
    /\ pc = "person"
    /\ \E p \in Persons : Becomes(run_afterPerson(Cur, p))

\* PersonState.update rejects
PersonRejected ==
    /\ pc = "person"
    /\ \E err \in PersonStateErrors : Becomes(run_catch(Cur, err))

\* fetchGroupTypeIndex settles inside the loop of processGroups
GroupTypeIndexResolved ==
    /\ pc = "groupType"
    /\ \E columnIndex \in fetchGroupTypeIndex(groupTypeLookups, Head(groupsLeft)) :
          Becomes(processGroups_loop(Cur, columnIndex))

\* fetchGroupTypeIndex settles for the $group_type of a $groupidentify
GroupIdentifyIndexResolved ==
    /\ pc = "groupIdentifyType"
    /\ \E groupTypeIndex \in fetchGroupTypeIndex(groupTypeLookups,
                                                  Get(event.properties, "$group_type").v) :
          Becomes(processGroups_groupIdentify(Cur, groupTypeIndex))

\* upsertGroup settles
UpsertGroupResolved ==
    /\ pc = "upsertGroup"
    /\ Becomes(run_afterGroups(Cur))

Next ==
    \/ RunStart
    \/ TeamResolved
    \/ CookielessResolved
    \/ TransformResolved
    \/ PersonResolved
    \/ PersonRejected
    \/ GroupTypeIndexResolved
    \/ GroupIdentifyIndexResolved
    \/ UpsertGroupResolved

Spec == Init /\ [][Next]_vars

(***************************************************************************)
(* The completions on this.promises settle.  The producer, the person      *)
(* store and the team manager settle them at any time, in any order.       *)
(***************************************************************************)
\* the rejection reasons of the producer
MessageSizeTooLarge == "MessageSizeTooLarge"
ProducerFailure == "ProducerFailure"

Settle(s, i, err, state, reason, logged) ==
    [s EXCEPT !.promises[i].failure = err, !.promises[i].state = state,
              !.promises[i].reason = reason, !.promises[i].logged = logged]

\* captureIngestionWarning of utils/ingestion-warnings: the warning is queued on
\* the producer; the returned promise does not reject.
utils_captureIngestionWarning(s, team_id, type, details) ==
    [s EXCEPT !.queued = Append(@,
        [topic |-> KAFKA_INGESTION_WARNINGS,
         value |-> JSONStringify(
             "team_id" :> JNum(team_id)
             @@ "type" :> JStr(type)
             @@ "source" :> JStr("plugin-server")
             @@ "details" :> JStr(JSONStringify(details))
             @@ "timestamp" :> JStr("now"))])]

\* the promise of captureIngestionWarning with a catch that throws again
captureIngestionWarning_rethrows(s, i, err) ==
    IF err = ""
    THEN Settle(s, i, err, "fulfilled", "", FALSE)
    ELSE Settle(s, i, err, "rejected", err, TRUE)

\* the promise of captureIngestionWarning: the catch logs and swallows
captureIngestionWarning_settled(s, i, err) ==
    IF err = ""
    THEN Settle(s, i, err, "fulfilled", "", FALSE)
    ELSE Settle(s, i, err, "fulfilled", "", TRUE)

\* a promise pushed as it is: the heatmap produces, kafkaAck, setTeamIngestedEvent
pushed_settled(s, i, err) ==
    IF err = ""
    THEN Settle(s, i, err, "fulfilled", "", FALSE)
    ELSE Settle(s, i, err, "rejected", err, FALSE)

\* the promise of produceExceptionSymbolificationEventStep: the catch logs and
\* throws the error again
produceExceptionSymbolificationEventStep_settled(s, i, err) ==
    IF err = ""
    THEN Settle(s, i, err, "fulfilled", "", FALSE)
    ELSE Settle(s, i, err, "rejected", err, TRUE)

\* the enriched record handed to the producer on a topic
producedOn(s, topic) ==
    s.produced[CHOOSE j \in 1..Len(s.produced) : s.produced[j].topic = topic].value.json

\* the promise of produceEventToKafka with a catch that throws nothing again
produceEventToKafka_swallowsAll(s, i, err) ==
    Settle(s, i, err, "fulfilled", "", FALSE)

\* the promise of produceEventToKafka: the catch awaits the warning for
\* MessageSizeTooLarge and throws every other error again
produceEventToKafka_settled(s, i, err) ==
    IF err = ""
    THEN Settle(s, i, err, "fulfilled", "", FALSE)
    ELSE IF err = MessageSizeTooLarge
         THEN LET ev == producedOn(s, CLICKHOUSE_JSON_EVENTS_KAFKA_TOPIC) IN
              Settle(utils_captureIngestionWarning(s, ev.team_id, "message_size_too_large",
                         "eventUuid" :> JChars(ev.uuid) @@ "distinctId" :> JStr(ev.distinct_id)),
                     i, err, "awaitingWarning", "", FALSE)
         ELSE Settle(s, i, err, "rejected", err, FALSE)

\* the await in the catch of produceEventToKafka returns
produceEventToKafka_warned(s, i) ==
    Settle(s, i, s.promises[i].failure, "fulfilled", "", FALSE)

PendingOf(kind, topics) ==
    { i \in 1..Len(promises) :
        /\ promises[i].state = "pending"
        /\ promises[i].kind = kind
        /\ promises[i].topic \in topics }

\* queueMessages of an ingestion warning of the runner settles
QueueMessagesSettled ==
    \E i \in PendingOf("queueMessages", {KAFKA_INGESTION_WARNINGS}) :
    \E err \in {"", ProducerFailure} :
        Becomes(captureIngestionWarning_settled(Cur, i, err))

\* the produce of a heatmap sub-event settles
HeatmapProduceSettled ==
    \E i \in PendingOf("produce", {CLICKHOUSE_HEATMAPS_KAFKA_TOPIC}) :
    \E err \in {"", ProducerFailure} :
        Becomes(pushed_settled(Cur, i, err))

\* the acknowledgement of the person update settles
KafkaAckSettled ==
    \E i \in PendingOf("kafkaAck", {""}) :
    \E err \in {"", ProducerFailure} :
        Becomes(pushed_settled(Cur, i, err))

\* setTeamIngestedEvent settles
SetTeamIngestedEventSettled ==
    \E i \in PendingOf("setTeamIngestedEvent", {""}) :
    \E err \in {"", "StoreFailure"} :
        Becomes(pushed_settled(Cur, i, err))

\* the produce on the exceptions topic settles
ExceptionProduceSettled ==
    \E i \in PendingOf("produce", {EXCEPTIONS_SYMBOLIFICATION_KAFKA_TOPIC}) :
    \E err \in {"", MessageSizeTooLarge, ProducerFailure} :
        Becomes(produceExceptionSymbolificationEventStep_settled(Cur, i, err))

\* the produce on the enriched-events topic settles
EventProduceSettled ==
    \E i \in PendingOf("produce", {CLICKHOUSE_JSON_EVENTS_KAFKA_TOPIC}) :
    \E err \in {"", MessageSizeTooLarge, ProducerFailure} :
        Becomes(produceEventToKafka_settled(Cur, i, err))

\* the warning awaited in the catch of produceEventToKafka settles
MessageSizeWarningSettled ==
    \E i \in 1..Len(promises) :
        /\ promises[i].state = "awaitingWarning"
        /\ Becomes(produceEventToKafka_warned(Cur, i))

\* The events of the runs whose completions are followed until they settle.
SettleInputs ==
    { RawEvent(<<Undefined, JChars(TokenT1), "d1">>, uuid, name, bag) :
        uuid \in {ValidUuid}, name \in {"$pageview", "$exception"},
        bag \in { EmptyObj,
                  "$process_person_profile" :> JStr("yes")
                      @@ "$heatmap_data" :> HeatmapData(MaxHeatmapItems),
                  "$heatmap_data" :> JStr("garbage"),
                  "$sentry_event_id" :> JStr("sid"),
                  "$groups" :> JObj(GroupsObj(MaxGroups)) } }
    \cup
    { RawEvent(<<Undefined, JChars(TokenT1), "d1">>, ValidUuid, "$$heatmap",
               "$heatmap_data" :> HeatmapData(1)),
      RawEvent(<<JNum(2), Undefined, "d1">>, ValidUuid, "$identify", EmptyObj),
      RawEvent(<<Undefined, JChars(TokenT1), "d1">>, ValidUuid, "$$client_ingestion_warning",
               "$$client_ingestion_warning_message" :> JStr("msg")),
      RawEvent(<<Undefined, JChars(TokenT1), "d1">>, <<"g", "-", "1">>, "$pageview", EmptyObj),
      RawEvent(<<Undefined, JChars(TokenT1), "d1">>, ValidUuid, "$groupidentify",
               "$group_type" :> JStr("organization") @@ "$group_key" :> JStr("acme")) }

InitSettle == InitOn(SettleInputs)

NextSettle ==
    \/ Next
    \/ QueueMessagesSettled
    \/ HeatmapProduceSettled
    \/ KafkaAckSettled
    \/ SetTeamIngestedEventSettled
    \/ ExceptionProduceSettled
    \/ EventProduceSettled
    \/ MessageSizeWarningSettled

SpecSettle == InitSettle /\ [][NextSettle]_vars

(***************************************************************************)
(* The consumer: it runs a runner on each event of the batch it pulled,    *)
(* takes the completions of each run, awaits them all and commits the      *)
(* offsets of the batch; a failure that is no drop fails the batch.        *)
(***************************************************************************)
\* the completion has not settled
Unsettled(p) == p.state \in {"pending", "awaitingWarning"}

\* getPromises() returning the list without its last completion
getPromises_withoutLast(s) ==
    IF s.promises = <<>> THEN <<>> ELSE SubSeq(s.promises, 1, Len(s.promises) - 1)

\* getPromises(): the list the runner pushes its completions on
getPromises(s) == s.promises

\* The events of the batches, and the batches: two events of one partition.
HeatmapPageview ==
    RawEvent(<<Undefined, JChars(TokenT1), "d1">>, ValidUuid, "$pageview",
             "$process_person_profile" :> JStr("yes") @@ "$heatmap_data" :> HeatmapData(1))
InvalidUuidPageview ==
    RawEvent(<<Undefined, JChars(TokenT1), "d1">>, <<"g", "-", "1">>, "$pageview", EmptyObj)
BatchInputs ==
    { HeatmapPageview,
      RawEvent(<<Undefined, JChars(TokenT1), "d1">>, ValidUuid, "$pageview",
               "$groups" :> JObj(GroupsObj(MaxGroups))),
      RawEvent(<<Undefined, JChars(TokenT1), "d1">>, ValidUuid, "$exception", EmptyObj),
      RawEvent(<<Undefined, JChars(TokenT1), "d1">>, ValidUuid, "$groupidentify",
               "$group_type" :> JStr("organization") @@ "$group_key" :> JStr("acme")),
      InvalidUuidPageview }
Batches == { << first, second >> : first \in BatchInputs, second \in BatchInputs }

\* the consumer takes the completions of the run that has ended
collectPromises(c, s) ==
    LET held == Len(getPromises(s)) IN
    [c EXCEPT !.processed = @ + 1,
              !.collected = @ + held,
              !.held = held]

\* the completions of the run are kept while the next event is run
keepPromises(c, s) ==
    [c EXCEPT !.held = 0,
              !.pendingHeld = @ + Cardinality({i \in 1..c.held : Unsettled(s.promises[i])}),
              !.pendingNotHeld = @ + Cardinality({i \in (c.held + 1)..Len(s.promises) :
                                                     Unsettled(s.promises[i])}),
              !.rejected = @ \/ \E i \in 1..c.held : s.promises[i].state = "rejected"]

\* run() has ended with a result or with a drop
RunEnded ==
    \/ outcome = "returned"
    \/ outcome = "threw" /\ error.class = "EventDroppedError"

\* the run of an event has ended and the batch has another event
ConsumerNextEvent ==
    /\ consumer.position = "processing"
    /\ RunEnded
    /\ consumer.batch # <<>>
    /\ consumer' = [keepPromises(collectPromises(consumer, Cur), Cur)
                       EXCEPT !.batch = Tail(@)]
    /\ RunnerBecomes(Construct(Head(consumer.batch)))
    /\ UNCHANGED personVars
    /\ UNCHANGED serverVars

\* the run of the last event has ended: the consumer awaits the completions
ConsumerAwaitAll ==
    /\ consumer.position = "processing"
    /\ RunEnded
    /\ consumer.batch = <<>>
    /\ consumer' = [collectPromises(consumer, Cur) EXCEPT !.position = "awaiting"]
    /\ UNCHANGED runnerVars
    /\ UNCHANGED personVars
    /\ UNCHANGED serverVars

\* run() threw an error that is no drop: the batch fails and is retried
ConsumerRunFailed ==
    /\ consumer.position = "processing"
    /\ outcome = "threw"
    /\ error.class # "EventDroppedError"
    /\ consumer' = [consumer EXCEPT !.position = "failed"]
    /\ UNCHANGED runnerVars
    /\ UNCHANGED personVars
    /\ UNCHANGED serverVars

\* a completion of an earlier event of the batch settles
EarlierCompletionSettled ==
    /\ consumer.pendingHeld > 0
    /\ \E rejects \in BOOLEAN :
          consumer' = [consumer EXCEPT !.pendingHeld = @ - 1, !.rejected = @ \/ rejects]
    /\ UNCHANGED runnerVars
    /\ UNCHANGED personVars
    /\ UNCHANGED serverVars

\* every completion the consumer holds has settled
HeldSettled ==
    /\ consumer.pendingHeld = 0
    /\ \A i \in 1..consumer.held : ~Unsettled(promises[i])
HeldRejected ==
    \/ consumer.rejected
    \/ \E i \in 1..consumer.held : promises[i].state = "rejected"

\* the completions have settled, none with a failure: the offsets are committed
ConsumerCommit ==
    /\ consumer.position = "awaiting"
    /\ HeldSettled
    /\ ~HeldRejected
    /\ consumer' = [consumer EXCEPT !.position = "committed"]
    /\ UNCHANGED runnerVars
    /\ UNCHANGED personVars
    /\ UNCHANGED serverVars

\* a completion failed: the batch fails and is retried
ConsumerBatchFailed ==
    /\ consumer.position = "awaiting"
    /\ HeldSettled
    /\ HeldRejected
    /\ consumer' = [consumer EXCEPT !.position = "failed"]
    /\ UNCHANGED runnerVars
    /\ UNCHANGED personVars
    /\ UNCHANGED serverVars

InitConsumer ==
    \E batch \in Batches :
        /\ InitRunner(Head(batch))
        /\ InitIdentity
        /\ InitServerOn({EmptyObj}, {EmptyObj})
        /\ consumer = [NoBatch EXCEPT !.position = "processing", !.batch = Tail(batch)]

NextConsumer ==
    \/ NextSettle
    \/ ConsumerNextEvent
    \/ ConsumerAwaitAll
    \/ ConsumerRunFailed
    \/ EarlierCompletionSettled
    \/ ConsumerCommit
    \/ ConsumerBatchFailed

SpecConsumer == InitConsumer /\ [][NextConsumer]_vars


(***************************************************************************)
(* The identity engine at work: each worker takes an event, reads, and     *)
(* commits, retries or gives up.  The runner stands still meanwhile.       *)
(***************************************************************************)
\* the event is one that creates a person on the rows read
NeedsPerson(read, ev) == personIdOf(read, ev.distinct_id) = NoUuid /\
    (ev.distinct_id = ev.other \/ personIdOf(read, ev.other) = NoUuid)
\* the uuid the generator gives for the event: the next one not yet given
GeneratedUuids(store, read, ev) ==
    LET fresh == {u \in PersonUuidSet : store.persons[u] = AbsentPerson} IN
    IF NeedsPerson(read, ev)
    THEN {u \in fresh : \A v \in fresh : UuidRank[u] <= UuidRank[v]}
    ELSE {NoUuid}
\* the time of the commit: one tick per person created
Now(store) == 1 + Cardinality({u \in PersonUuidSet : store.persons[u] # AbsentPerson})

\* a worker takes an event and reads its rows
BeginPersonEvent ==
    /\ \E w \in Workers, ev \in PersonEvents :
          /\ personWorkers[w].status = "idle"
          /\ (ev.set # EmptyObj \/ ev.set_once # EmptyObj \/ ev.unset # {}) =>
                \A u \in PersonUuidSet :
                   IsLive(personStore.persons[u]) =>
                      personStore.persons[u].version < MaxPersonVersion
          /\ personWorkers' = [personWorkers EXCEPT ![w] =
                [status |-> "busy", error |-> "", ev |-> ev,
                 read |-> ReadRows(personStore, ev), retries |-> 0]]
    /\ UNCHANGED << personStore, seenDistinctIds >>
    /\ UNCHANGED runnerVars
    /\ UNCHANGED consumerVars
    /\ UNCHANGED serverVars

\* the rows are as read: the writes are committed
CommitPersonEvent ==
    /\ \E w \in Workers :
          /\ personWorkers[w].status = "busy"
          /\ LET ev == personWorkers[w].ev
                 read == personWorkers[w].read
             IN \E uuid \in GeneratedUuids(personStore, read, ev) :
                   LET r == commitRows(personStore, ev, read,
                                       processPersonEvent(read, ev, uuid, Now(personStore)))
                   IN /\ r.ok
                      /\ personStore' = r.store
                      /\ seenDistinctIds' = seenDistinctIds \cup IdsOf(ev)
          /\ personWorkers' = [personWorkers EXCEPT ![w] = IdleWorker]
    /\ UNCHANGED runnerVars
    /\ UNCHANGED consumerVars
    /\ UNCHANGED serverVars

\* the rows have changed: the event is read again, within the retry bound
RetryPersonEvent ==
    /\ \E w \in Workers :
          /\ personWorkers[w].status = "busy"
          /\ ~commitRows(personStore, personWorkers[w].ev, personWorkers[w].read,
                         personWorkers[w].read).ok
          /\ personWorkers[w].retries < MaxRetries
          /\ personWorkers' = [personWorkers EXCEPT
                ![w].read = ReadRows(personStore, personWorkers[w].ev),
                ![w].retries = @ + 1]
    /\ UNCHANGED << personStore, seenDistinctIds >>
    /\ UNCHANGED runnerVars
    /\ UNCHANGED consumerVars
    /\ UNCHANGED serverVars

\* the retries are exhausted: the event fails with PersonUpdateConflict
FailPersonEvent ==
    /\ \E w \in Workers :
          /\ personWorkers[w].status = "busy"
          /\ ~commitRows(personStore, personWorkers[w].ev, personWorkers[w].read,
                         personWorkers[w].read).ok
          /\ personWorkers[w].retries = MaxRetries
          /\ personWorkers' = [personWorkers EXCEPT ![w] =
                [status |-> "idle", error |-> "PersonUpdateConflict"]]
    /\ UNCHANGED << personStore, seenDistinctIds >>
    /\ UNCHANGED runnerVars
    /\ UNCHANGED consumerVars
    /\ UNCHANGED serverVars

\* the runner the identity engine serves, before its run
IdentifyInput == RawEvent(<<Undefined, JChars(TokenT1), "d1">>, ValidUuid, "$identify", <<>>)
InitPersons == InitOn({IdentifyInput})

NextPersons ==
    \/ BeginPersonEvent
    \/ CommitPersonEvent
    \/ RetryPersonEvent
    \/ FailPersonEvent

SpecPersons == InitPersons /\ [][NextPersons]_vars

(***************************************************************************)
(* The server at work: start() and the calls of stop(), cut at each await. *)
(* The runner, the identity engine and the consumer stand still meanwhile. *)
(***************************************************************************)
Srv == [server |-> server, startCall |-> startCall, stopCalls |-> stopCalls,
        nodeProcess |-> nodeProcess]

ServerBecomes(sv) ==
    /\ server' = sv.server
    /\ startCall' = sv.startCall
    /\ stopCalls' = sv.stopCalls
    /\ nodeProcess' = sv.nodeProcess
    /\ UNCHANGED configInputs
    /\ UNCHANGED runnerVars
    /\ UNCHANGED personVars
    /\ UNCHANGED consumerVars

\* process.exit has not been called
Alive == nodeProcess.exitCode = Undefined

\* start() is called: the listeners are set up, the capabilities are read off
\* the config and createHub is awaited
StartCalled ==
    /\ Alive
    /\ startCall.pc = "notCalled"
    /\ \E capabilities \in SUBSET Services :
          ServerBecomes([Srv EXCEPT !.nodeProcess.listeners = TRUE,
                                    !.startCall.capabilities = capabilities,
                                    !.startCall.pc = "createHub"])

\* createHub settles; with a hub the pubsub is made and its start awaited
CreateHubSettled ==
    /\ Alive
    /\ startCall.pc = "createHub"
    /\ \E ok \in BOOLEAN :
          ServerBecomes(IF ok
                        THEN [Srv EXCEPT !.server.hub = JStr("hub"),
                                         !.server.pubsub = JStr("pubsub"),
                                         !.startCall.pc = "pubsub.start"]
                        ELSE [Srv EXCEPT !.startCall.pc = "rejected"])

\* pubsub.start() settles
PubsubStartSettled ==
    /\ Alive
    /\ startCall.pc = "pubsub.start"
    /\ \E ok \in BOOLEAN :
          ServerBecomes(IF ok THEN start_afterPubsub(Srv)
                        ELSE [Srv EXCEPT !.startCall.pc = "rejected"])

\* createRedisClient settles
CreateRedisClientSettled ==
    /\ Alive
    /\ startCall.pc = "createRedisClient"
    /\ \E ok \in BOOLEAN :
          ServerBecomes(IF ok THEN start_loadServices(Srv)
                        ELSE [Srv EXCEPT !.startCall.pc = "rejected"])

\* a service loader settles
ServiceLoaderSettled ==
    /\ Alive
    /\ \E s \in DOMAIN startCall.loaders, ok \in BOOLEAN :
          /\ startCall.loaders[s] = "loading"
          /\ ServerBecomes(start_loaderSettled(Srv, s, ok))

\* the join of a batch consumer rejects: its catch calls stop(error)
BatchConsumerJoinRejected ==
    /\ Alive
    /\ \E s \in DOMAIN startCall.joins :
          /\ startCall.joins[s] = "pending"
          /\ ServerBecomes(stop([Srv EXCEPT !.startCall.joins[s] = "rejected"],
                                ErrorOf("task joined")))

\* the calls of stop() that came from a signal or an uncaught exception
FromListeners == {i \in DOMAIN stopCalls : stopCalls[i].error \in {Undefined, ErrorOf("uncaught")}}

\* SIGINT, SIGTERM or SIGHUP: the listener calls stop()
Signal ==
    /\ Alive
    /\ nodeProcess.listeners
    /\ Cardinality(FromListeners) < MaxStopCalls
    /\ ServerBecomes(stop(Srv, Undefined))

\* uncaughtException: the listener calls stop(error)
UncaughtException ==
    /\ Alive
    /\ nodeProcess.listeners
    /\ Cardinality(FromListeners) < MaxStopCalls
    /\ ServerBecomes(stop(Srv, ErrorOf("uncaught")))

\* pubsub.stop(), an onShutdown or posthog.shutdown() settles
ShutdownCallSettled ==
    /\ Alive
    /\ \E i \in DOMAIN stopCalls :
          /\ stopCalls[i].pc = "allSettled"
          /\ \E c \in DOMAIN stopCalls[i].awaited, state \in {"fulfilled", "rejected"} :
                /\ stopCalls[i].awaited[c] = "pending"
                /\ ServerBecomes([Srv EXCEPT !.stopCalls[i].awaited[c] = state])

\* the await of Promise.allSettled returns
AllSettledReturned ==
    /\ Alive
    /\ \E i \in DOMAIN stopCalls :
          /\ stopCalls[i].pc = "allSettled"
          /\ allSettled(stopCalls[i].awaited)
          /\ ServerBecomes(stop_afterAllSettled(Srv, i))

\* the flush of the producer settles
FlushSettled ==
    /\ Alive
    /\ \E i \in DOMAIN stopCalls, ok \in BOOLEAN :
          /\ stopCalls[i].pc = "flush"
          /\ ServerBecomes(stop_afterFlush(Srv, i, ok))

\* closeHub settles
CloseHubSettled ==
    /\ Alive
    /\ \E i \in DOMAIN stopCalls, ok \in BOOLEAN :
          /\ stopCalls[i].pc = "closeHub"
          /\ ServerBecomes(stop_afterCloseHub(Srv, i, ok))

InitServer ==
    /\ InitRunner(IdentifyInput)
    /\ InitIdentity
    /\ consumer = NoBatch
    /\ InitServerOn(CallerConfigs, DefaultConfigs)

NextServer ==
    \/ StartCalled
    \/ CreateHubSettled
    \/ PubsubStartSettled
    \/ CreateRedisClientSettled
    \/ ServiceLoaderSettled
    \/ BatchConsumerJoinRejected
    \/ Signal
    \/ UncaughtException
    \/ ShutdownCallSettled
    \/ AllSettledReturned
    \/ FlushSettled
    \/ CloseHubSettled

\* Every promise stop() awaits settles, and a settled await returns.
FairServer ==
    /\ WF_vars(ShutdownCallSettled)
    /\ WF_vars(AllSettledReturned)
    /\ WF_vars(FlushSettled)
    /\ WF_vars(CloseHubSettled)

SpecServer == InitServer /\ [][NextServer]_vars /\ FairServer

(***************************************************************************)
(* The claims.                                                             *)
(***************************************************************************)
Finished == outcome # "running"
Invoked(name) == \E i \in 1..Len(steps) : steps[i] = name
EnrichedTopics == {CLICKHOUSE_JSON_EVENTS_KAFKA_TOPIC, EXCEPTIONS_SYMBOLIFICATION_KAFKA_TOPIC}
\* the produce calls that carry the enriched record
EnrichedProduced == {i \in 1..Len(produced) : produced[i].topic \in EnrichedTopics}
\* the enriched record of such a call
Enriched(i) == produced[i].value.json
\* the warnings queued with a type
WarningsOfType(type) ==
    {i \in 1..Len(queued) : JSONParse(queued[i].value)["type"] = JStr(type)}
DroppedWith(cause) ==
    \E i \in 1..Len(eventDroppedCounter) : eventDroppedCounter[i].drop_cause = cause
PersonAndGroupSteps ==
    {"processPerson", "processGroups", "fetchGroupTypeIndex", "upsertGroup"}
\* the input says the team id / the token names a team
TeamIdResolves ==
    /\ originalEvent.team_id.t = "number"
    /\ \E tm \in Teams : tm.id = originalEvent.team_id.v
TokenResolves ==
    /\ originalEvent.token.t = "string"
    /\ \E tm \in Teams : tm.token = originalEvent.token.v
TokenHasNullByte ==
    /\ originalEvent.token.t = "string"
    /\ \E i \in 1..Len(originalEvent.token.v) : originalEvent.token.v[i] = NUL
\* person processing is disabled: by the event, by the team or by the skip list
PersonProcessingDisabled ==
    /\ team # Null
    /\ \/ Get(originalEvent.properties, "$process_person_profile") = JBool(FALSE)
       \/ team.person_processing_opt_out
       \/ /\ originalEvent.token.t = "string"
          /\ originalEvent.token.v = TokenT1
          /\ originalEvent.distinct_id = "skipme"
NoGroupKey(properties) ==
    \A i \in 0..(MAX_GROUP_TYPES_PER_TEAM - 1) : GroupKey(i) \notin DOMAIN properties

\* C1 (as stated): when run() finishes, an enriched record was handed to the
\* producer, or eventDroppedCounter was incremented with a drop_cause, or run()
\* threw.
C1_Original ==
    Finished =>
        \/ EnrichedProduced # {}
        \/ eventDroppedCounter # <<>>
        \/ outcome = "threw"

\* C1 (amended): when run() finishes, an enriched record was handed to the
\* producer, or eventDroppedCounter was incremented with a drop_cause, or run()
\* threw, or the unlabelled droppedEventFromTransformationsCounter was
\* incremented (null cookieless or transformer result), or the event was a
\* $$client_ingestion_warning whose warning was queued, or the event was a
\* $$heatmap handled by processHeatmaps alone.
C1_Accounted ==
    Finished =>
        \/ EnrichedProduced # {}
        \/ \E i \in 1..Len(eventDroppedCounter) : eventDroppedCounter[i].drop_cause # ""
        \/ outcome = "threw"
        \/ droppedEventFromTransformationsCounter > 0
        \/ /\ originalEvent.event = "$$client_ingestion_warning"
           /\ WarningsOfType("client_ingestion_warning") # {}
        \/ /\ originalEvent.event = "$$heatmap"
           /\ Invoked("processHeatmaps")

C1_Witness ==
    /\ Finished
    /\ outcome = "returned"
    /\ originalEvent.event = "$$heatmap"
    /\ produced # <<>>
    /\ EnrichedProduced = {}
    /\ eventDroppedCounter = <<>>

\* C2 (as stated): with person processing disabled, every enriched record has
\* person_mode propertyless, person_properties "{}" and no $group_<i> key,
\* whatever person row was resolved.
C2_Original ==
    \A i \in EnrichedProduced :
        PersonProcessingDisabled =>
            /\ Enriched(i).person_mode = "propertyless"
            /\ Enriched(i).person_properties = JSONStringify(EmptyObj)
            /\ NoGroupKey(JSONParse(Enriched(i).properties))

\* C2 (amended): with person processing disabled, every enriched record has
\* person_properties "{}" and no $group_<i> key, and its person_mode is
\* propertyless unless the resolved person row has force_upgrade set, in which
\* case it is force_upgrade.
C2_Propertyless ==
    \A i \in EnrichedProduced :
        PersonProcessingDisabled =>
            /\ Enriched(i).person_mode =
                 (IF person.force_upgrade THEN "force_upgrade" ELSE "propertyless")
            /\ Enriched(i).person_properties = JSONStringify(EmptyObj)
            /\ NoGroupKey(JSONParse(Enriched(i).properties))

C2_Witness ==
    /\ EnrichedProduced # {}
    /\ PersonProcessingDisabled
    /\ person.force_upgrade
    /\ Has(originalEvent.properties, "$group_0")

\* C3: with person processing enabled, person_properties of the enriched record
\* is the resolved person's property map overridden by the event's $set: every
\* key of $set carries the event's value, every other key the person's.
C3_PersonPropertiesAfterSet ==
    \A i \in EnrichedProduced :
        ~PersonProcessingDisabled =>
            LET pp == JSONParse(Enriched(i).person_properties)
                set == OrEmpty(Get(event.properties, "$set"))
                given == Spread(OrEmpty(Get(originalEvent.properties, "$set")),
                                OrEmpty(originalEvent.set))
            IN /\ DOMAIN pp = DOMAIN person.properties \cup DOMAIN set
               /\ \A k \in DOMAIN set : pp[k] = set[k]
               /\ \A k \in DOMAIN person.properties \ DOMAIN set : pp[k] = person.properties[k]
               /\ \A k \in DOMAIN given : k \in DOMAIN pp /\ pp[k] = given[k]

C3_Witness ==
    /\ EnrichedProduced # {}
    /\ ~PersonProcessingDisabled
    /\ Has(person.properties, "plan")
    /\ Has(OrEmpty(Get(originalEvent.properties, "$set")), "plan")

C5_Original ==
    (Finished /\ (TeamIdResolves \/ TokenResolves)) =>
        /\ ~DroppedWith("invalid_token")
        /\ team # Null

\* C5 (amended): getTeam consults one identifier only, the team_id when it is
\* present (and not 0) and the token otherwise.  The event is dropped with
\* invalid_token exactly when that identifier does not resolve, also when the
\* token would have; when it resolves, the event is processed with its team.
C5_ConsultedIdentifier ==
    Finished =>
        IF Truthy(originalEvent.team_id)
        THEN IF TeamIdResolves
             THEN team # Null /\ team.id = originalEvent.team_id.v
                  /\ ~DroppedWith("invalid_token")
             ELSE team = Null /\ DroppedWith("invalid_token") /\ outcome = "returned"
        ELSE IF TokenResolves
             THEN team # Null /\ team.token = originalEvent.token.v
                  /\ ~DroppedWith("invalid_token")
             ELSE team = Null /\ DroppedWith("invalid_token") /\ outcome = "returned"

C5_Witness ==
    /\ Finished
    /\ Truthy(originalEvent.team_id)
    /\ ~TeamIdResolves
    /\ TokenResolves
    /\ DroppedWith("invalid_token")

\* C6: an event whose team resolves, whose uuid is invalid and whose name is not
\* $$client_ingestion_warning makes run() throw an EventDroppedError with code
\* invalid_event_uuid; exactly one invalid_event_uuid warning is queued and no
\* person, group, heatmap or produce step happens.
C6_InvalidUuid ==
    ( /\ Finished
      /\ team # Null
      /\ ~UUIDvalidateString(originalEvent.uuid)
      /\ originalEvent.event # "$$client_ingestion_warning" )
    =>
        /\ outcome = "threw"
        /\ error.class = "EventDroppedError"
        /\ error.ingestionWarning = "invalid_event_uuid"
        /\ Len(queued) = 1
        /\ WarningsOfType("invalid_event_uuid") = {1}
        /\ Len(promises) = 1
        /\ promises[1].kind = "queueMessages"
        /\ promises[1].what = "invalid_event_uuid"
        /\ produced = <<>>
        /\ groupUpserts = <<>>
        /\ person = Null
        /\ \A n \in PersonAndGroupSteps \cup {"processHeatmaps", "createKafkaEvent"} :
              ~Invoked(n)

C6_Witness ==
    /\ Finished
    /\ team # Null
    /\ ~UUIDvalidateString(originalEvent.uuid)
    /\ originalEvent.event = "$pageview"
    /\ outcome = "threw"

C8_HeatmapFastPath ==
    ( /\ Finished
      /\ team # Null
      /\ UUIDvalidateString(originalEvent.uuid)
      /\ originalEvent.event = "$$heatmap" )
    =>
        LET hd == Get(originalEvent.properties, "$heatmap_data") IN
        /\ outcome = "returned"
        /\ \A n \in PersonAndGroupSteps \cup
                    {"cookieless", "transformEventAndProduceMessages",
                     "trackFirstEventIngestion", "createKafkaEvent"} : ~Invoked(n)
        /\ person = Null
        /\ groupUpserts = <<>>
        /\ EnrichedProduced = {}
        /\ \A i \in 1..Len(produced) :
              /\ produced[i].topic = CLICKHOUSE_HEATMAPS_KAFKA_TOPIC
              /\ produced[i].key = originalEvent.uuid
        /\ Len(produced) =
              (IF team.heatmaps_opt_in # JBool(FALSE) /\ hd.t = "object"
               THEN hd.v["items"].v ELSE 0)

C8_Witness ==
    /\ Finished
    /\ originalEvent.event = "$$heatmap"
    /\ Len(produced) >= 2
    /\ \A i \in 1..Len(produced) : produced[i].topic = CLICKHOUSE_HEATMAPS_KAFKA_TOPIC

\* C9: no enriched record handed to the producer has a $heatmap_data key in its
\* properties, whether the team opted in, opted out, or the extraction threw.
C9_NoHeatmapData ==
    \A i \in EnrichedProduced :
        "$heatmap_data" \notin DOMAIN JSONParse(Enriched(i).properties)

C9_Witness ==
    /\ EnrichedProduced # {}
    /\ Has(originalEvent.properties, "$heatmap_data")
    /\ WarningsOfType("invalid_heatmap_data") # {}

\* C10: an event that reaches assembly has exactly one produce of its enriched
\* record: on the exceptions symbolification topic if and only if the event is
\* $exception and has no $sentry_event_id property, on the enriched-events topic
\* otherwise; and no enriched record is produced without assembly.
C10_ExclusiveRouting ==
    Finished =>
        IF Invoked("createKafkaEvent")
        THEN /\ Cardinality(EnrichedProduced) = 1
             /\ \A i \in EnrichedProduced :
                  produced[i].topic =
                    (IF /\ originalEvent.event = "$exception"
                        /\ ~Has(originalEvent.properties, "$sentry_event_id")
                     THEN EXCEPTIONS_SYMBOLIFICATION_KAFKA_TOPIC
                     ELSE CLICKHOUSE_JSON_EVENTS_KAFKA_TOPIC)
        ELSE EnrichedProduced = {}

C10_Witness ==
    /\ Finished
    /\ Cardinality(EnrichedProduced) = 1
    /\ \E i \in EnrichedProduced : produced[i].topic = EXCEPTIONS_SYMBOLIFICATION_KAFKA_TOPIC

\* the completions collected for the produce of the enriched record
EnrichedPromises ==
    {i \in 1..Len(promises) : promises[i].kind = "produce" /\ promises[i].topic \in EnrichedTopics}
\* the details of a queued warning
WarningDetails(i) == JSONParse(JSONParse(queued[i].value)["details"].v)

\* C11 (as stated): when the producer rejects the enriched record with
\* MessageSizeTooLarge, exactly one message_size_too_large warning with the
\* event's uuid is queued, the record is produced once only, and the completion
\* collected for the produce does not reject.
C11_Original ==
    \A i \in EnrichedPromises :
        promises[i].failure = MessageSizeTooLarge =>
            /\ promises[i].state \in {"awaitingWarning", "fulfilled"}
            /\ Cardinality(WarningsOfType("message_size_too_large")) = 1
            /\ \A w \in WarningsOfType("message_size_too_large") :
                  WarningDetails(w)["eventUuid"] = JChars(originalEvent.uuid)
            /\ Cardinality(EnrichedProduced) = 1

\* C12 (as stated): when the producer rejects the enriched record with
\* MessageSizeTooLarge, eventDroppedCounter has a sample with drop_cause
\* message_size_too_large.
C12_Original ==
    \A i \in EnrichedPromises :
        promises[i].failure = MessageSizeTooLarge => DroppedWith("message_size_too_large")

\* C13: when the produce of the enriched record, on the enriched-events or on
\* the exceptions topic, is rejected with an error other than
\* MessageSizeTooLarge, the completion collected for it rejects with that error.
C13_FailurePropagates ==
    \A i \in EnrichedPromises :
        promises[i].failure \notin {"", MessageSizeTooLarge} =>
            /\ promises[i].state = "rejected"
            /\ promises[i].reason = promises[i].failure

C13_Witness ==
    /\ Finished
    /\ \E i \in EnrichedPromises :
          /\ promises[i].topic = CLICKHOUSE_JSON_EVENTS_KAFKA_TOPIC
          /\ promises[i].failure = ProducerFailure
          /\ promises[i].state = "rejected"

\* the completions collected for the warnings of the runner
WarningPromises == {i \in 1..Len(promises) : promises[i].kind = "queueMessages"}

\* C14: the completion collected for an ingestion warning never rejects: when
\* queueMessages fails, the failure is logged and the completion is fulfilled;
\* and the step that settles it leaves run() where it was: same position, same
\* outcome, same error.
C14_WarningsFireAndForget ==
    /\ [](\A i \in WarningPromises :
            /\ promises[i].state \in {"pending", "fulfilled"}
            /\ promises[i].failure # "" => promises[i].state = "fulfilled" /\ promises[i].logged)
    /\ [][ (\E i \in WarningPromises : promises[i].state # promises'[i].state)
             => (pc' = pc /\ outcome' = outcome /\ error' = error /\ steps' = steps) ]_vars

C14_Witness ==
    /\ Finished
    /\ outcome = "threw"
    /\ \E i \in WarningPromises :
          /\ promises[i].failure = ProducerFailure
          /\ promises[i].state = "fulfilled"
          /\ promises[i].logged

\* the steps of _run that follow the transformer
StepsAfterTransform ==
    { "processAiEvent", "normalizeEvent", "processPerson", "processGroups",
      "fetchGroupTypeIndex", "upsertGroup", "trackFirstEventIngestion", "processHeatmaps",
      "createKafkaEvent", "produceEventToKafka", "produceExceptionSymbolificationEventStep" }

\* C15 (as stated): when the transformer returns no event, eventDroppedCounter
\* gets a sample with drop_cause transformation_dropped, run() returns, and no
\* later step runs.
C15_Original ==
    (Finished /\ result = Null) =>
        /\ DroppedWith("transformation_dropped")
        /\ outcome = "returned"
        /\ \A n \in StepsAfterTransform : ~Invoked(n)

\* C15 (amended): when the transformer returns no event, the counter
\* droppedEventFromTransformationsCounter, which has no drop_cause label, is
\* incremented once and eventDroppedCounter is left alone; run() returns without
\* an error, and no AI, normalization, person, group, heatmap, first-event
\* tracking, assembly or produce step runs.
C15_TransformationDropped ==
    (Finished /\ result = Null) =>
        /\ droppedEventFromTransformationsCounter = 1
        /\ eventDroppedCounter = <<>>
        /\ outcome = "returned"
        /\ error = NoError
        /\ \A n \in StepsAfterTransform : ~Invoked(n)
        /\ produced = <<>>
        /\ groupUpserts = <<>>
        /\ person = Null
        /\ \A i \in 1..Len(promises) : promises[i].kind = "queueMessages"

C15_Witness ==
    /\ Finished
    /\ result = Null
    /\ Invoked("transformEventAndProduceMessages")
    /\ droppedEventFromTransformationsCounter = 1

\* C16 (as stated): when the transformer returns a changed event, the enriched
\* record carries the change: a property the returned event has and the event
\* given to the transformer had not is in the record's properties.
C16_Original ==
    \A i \in EnrichedProduced :
        (result.t = "object" /\ Has(result.v.properties, "$transformed")) =>
            Has(JSONParse(Enriched(i).properties), "$transformed")

\* the order of the steps on the full path; the two produce steps share a place
StepOrder ==
    << "getTeam", "validateUuid", "validatePersonProcessing", "cookieless",
       "transformEventAndProduceMessages", "processAiEvent", "normalizeEvent", "processPerson",
       "processGroups", "fetchGroupTypeIndex", "upsertGroup", "trackFirstEventIngestion",
       "processHeatmaps", "createKafkaEvent", "produce" >>
HeatmapStepOrder ==
    << "getTeam", "validateUuid", "validatePersonProcessing", "normalizeEvent", "processHeatmaps" >>
StepRanks ==
    [name \in {StepOrder[k] : k \in 1..Len(StepOrder)} |->
        CHOOSE k \in 1..Len(StepOrder) : StepOrder[k] = name]
StepRank(name) ==
    IF name \in {"produceEventToKafka", "produceExceptionSymbolificationEventStep"}
    THEN StepRanks["produce"]
    ELSE StepRanks[name]
IsPrefix(a, b) == Len(a) <= Len(b) /\ \A i \in 1..Len(a) : a[i] = b[i]
HeatmapFastPathDone ==
    originalEvent.event = "$$heatmap" /\ outcome = "returned" /\ Invoked("processHeatmaps")
\* the terminal states of the state machine
Produced == EnrichedProduced # {} \/ HeatmapFastPathDone
Errored == outcome = "threw" /\ error.class = "Error"
Dropped ==
    \/ outcome = "threw" /\ error.class = "EventDroppedError"
    \/ outcome = "returned" /\ ~Invoked("createKafkaEvent") /\ ~HeatmapFastPathDone

\* C17: the steps of a run are taken in the order of the state machine: team,
\* validation, then the heatmap fast path or cookieless, transformer, AI,
\* normalization, person, groups, tracking, heatmaps, assembly, produce, none
\* twice but the group type lookup; the person step starts only after the
\* transformer returned an event, assembly only after the groups are done, and
\* a finished run is in exactly one of Produced, Dropped, Errored.
C17_StateMachineOrder ==
    /\ IF originalEvent.event = "$$heatmap"
       THEN IsPrefix(steps, HeatmapStepOrder)
       ELSE \A i \in 1..(Len(steps) - 1) :
               \/ StepRank(steps[i]) < StepRank(steps[i + 1])
               \/ steps[i] = "fetchGroupTypeIndex" /\ steps[i + 1] = "fetchGroupTypeIndex"
    /\ steps # <<>> => steps[1] = "getTeam"
    /\ Invoked("processPerson") =>
          /\ Invoked("transformEventAndProduceMessages")
          /\ result.t = "object"
    /\ Invoked("createKafkaEvent") =>
          /\ Invoked("processGroups")
          /\ groupsLeft = <<>>
          /\ person # Null
          /\ Finished
    /\ Finished =>
          \/ Produced /\ ~Dropped /\ ~Errored
          \/ ~Produced /\ Dropped /\ ~Errored
          \/ ~Produced /\ ~Dropped /\ Errored

C17_Witness ==
    /\ Finished
    /\ Produced
    /\ originalEvent.event = "$groupidentify"
    /\ Invoked("upsertGroup")
    /\ Len(steps) >= 14

\* the place of the first call of a step
IndexOf(name) == CHOOSE i \in 1..Len(steps) : steps[i] = name

\* C18 (as stated): on the full path the event the transformer is given, and the
\* event processAiEvent works on, already has its sanitized name and its parsed
\* timestamp: normalizeEvent ran before both.
C18_Original ==
    originalEvent.event # "$$heatmap" =>
        /\ pc = "transform" =>
              /\ Invoked("normalizeEvent")
              /\ event.event = sanitizeEventName(originalEvent.event)
              /\ timestamp # Undefined
        /\ Invoked("processAiEvent") =>
              /\ Invoked("normalizeEvent")
              /\ IndexOf("normalizeEvent") < IndexOf("processAiEvent")

\* C18 (amended): on the full path normalizeEvent runs after the transformer and
\* after processAiEvent, and before the person step: while the cookieless step
\* and the transformer run the event has the name it came with and no parsed
\* timestamp; from the person step on it has its sanitized name and its
\* timestamp.
C18_NormalizerAfterTransform ==
    originalEvent.event # "$$heatmap" =>
        /\ pc \in {"cookieless", "transform"} =>
              /\ ~Invoked("normalizeEvent")
              /\ ~Invoked("processAiEvent")
              /\ event.event = originalEvent.event
              /\ timestamp = Undefined
        /\ Invoked("normalizeEvent") =>
              /\ Invoked("transformEventAndProduceMessages")
              /\ Invoked("processAiEvent")
              /\ IndexOf("transformEventAndProduceMessages") < IndexOf("processAiEvent")
              /\ IndexOf("processAiEvent") < IndexOf("normalizeEvent")
        /\ Invoked("processPerson") =>
              /\ Invoked("normalizeEvent")
              /\ IndexOf("normalizeEvent") < IndexOf("processPerson")
              /\ event.event = sanitizeEventName(originalEvent.event)
              /\ timestamp # Undefined

C18_Witness ==
    /\ originalEvent.event = LongEventName
    /\ Invoked("processPerson")
    /\ event.event = CappedEventName
    /\ timestamp # Undefined

\* the completions of a kind collected on this.promises, and the calls started
Collected(kind, topic) ==
    Cardinality({i \in 1..Len(promises) : promises[i].kind = kind /\ promises[i].topic = topic})
ProducedOn(topic) == Cardinality({i \in 1..Len(produced) : produced[i].topic = topic})
\* the warnings queued by the runner itself
RunnerWarnings == {i \in 1..Len(queued) : i \notin WarningsOfType("message_size_too_large")}

\* C19: this.promises holds exactly one completion for every side effect the
\* run has started: one per warning queued by the runner, one per produce on
\* each topic, one for the person update once the person is resolved, one for
\* the first-event tracking once it is called, and nothing else; and while run()
\* has not finished, its next step can be taken whatever the completions
\* collected so far have done.
C19_AllCollected ==
    /\ Collected("queueMessages", KAFKA_INGESTION_WARNINGS) = Cardinality(RunnerWarnings)
    /\ \A topic \in EnrichedTopics \cup {CLICKHOUSE_HEATMAPS_KAFKA_TOPIC} :
          Collected("produce", topic) = ProducedOn(topic)
    /\ Collected("kafkaAck", "") = (IF person # Null THEN 1 ELSE 0)
    /\ Collected("setTeamIngestedEvent", "") =
          (IF Invoked("trackFirstEventIngestion") THEN 1 ELSE 0)
    /\ Len(promises) =
          Cardinality(RunnerWarnings) + Len(produced)
          + (IF person # Null THEN 1 ELSE 0)
          + (IF Invoked("trackFirstEventIngestion") THEN 1 ELSE 0)
    /\ (~Finished /\ promises # <<>>) => ENABLED Next

C19_Witness ==
    /\ Finished
    /\ Len(promises) >= MaxHeatmapItems + 4
    /\ \A i \in 1..Len(promises) : promises[i].state = "pending"
    /\ RunnerWarnings # {}
    /\ person # Null

\* C20: when run() throws an EventDroppedError, the catch queued exactly one
\* warning of the error's code, the last one queued, whose details hold the
\* error's details map; the error thrown is the one the step threw, with
\* doNotSendToDLQ false unless the step set it.  When run() throws another
\* error, the catch queued nothing: the only warning there may be is the
\* invalid_process_person_profile of the validation.
C20_DropWarningAndRethrow ==
    (Finished /\ outcome = "threw") =>
        IF error.class = "EventDroppedError"
        THEN /\ queued # <<>>
             /\ WarningsOfType(error.ingestionWarning) = {Len(queued)}
             /\ Len(promises) = Len(queued)
             /\ promises[Len(promises)].kind = "queueMessages"
             /\ error.ingestionWarningDetails # Undefined =>
                   \A k \in DOMAIN error.ingestionWarningDetails.v :
                       /\ k \in DOMAIN WarningDetails(Len(queued))
                       /\ WarningDetails(Len(queued))[k] = error.ingestionWarningDetails.v[k]
             /\ error \in
                   { EventDroppedError("invalid_event_uuid", Undefined, Undefined),
                     EventDroppedError("invalid_event_when_process_person_profile_is_false",
                                       JBool(TRUE), Undefined) }
                   \cup { e \in PersonStateErrors : e.class = "EventDroppedError" }
             /\ error.doNotSendToDLQ =
                   (error.ingestionWarning = "invalid_event_when_process_person_profile_is_false")
             /\ ~UUIDvalidateString(originalEvent.uuid) =>
                   error.ingestionWarning = "invalid_event_uuid"
        ELSE /\ error \in PersonStateErrors
             /\ \A i \in 1..Len(queued) :
                   i \in WarningsOfType("invalid_process_person_profile")
             /\ Len(queued) <= 1

C20_Witness ==
    /\ Finished
    /\ outcome = "threw"
    /\ error.ingestionWarning = "person_update_dropped"
    /\ error.ingestionWarningDetails # Undefined
    /\ Len(queued) = 2
    /\ WarningsOfType("invalid_process_person_profile") = {1}

\* the lookups of fetchGroupTypeIndex made for the entries of $groups, and the
\* one made for the $group_type of a $groupidentify
ColumnLookups == {i \in 1..Len(groupTypeLookups) : groupTypeLookups[i].from = "$groups"}
IdentifyLookups == {i \in 1..Len(groupTypeLookups) : groupTypeLookups[i].from = "$group_type"}
\* the event holds $group_<i> as the input did
GroupKeyUntouched(i) ==
    Get(event.properties, GroupKey(i)) = Get(originalEvent.properties, GroupKey(i))

\* C21: for an event whose person processing is disabled processGroups does
\* nothing: fetchGroupTypeIndex is never called, upsertGroup is never called
\* and no group row is written, and every $group_<index> key of the event is
\* one the input already had, with the value it had.
C21_GroupsSkipped ==
    PersonProcessingDisabled =>
        /\ ~Invoked("fetchGroupTypeIndex")
        /\ ~Invoked("upsertGroup")
        /\ groupTypeLookups = <<>>
        /\ groupUpserts = <<>>
        /\ \A i \in 0..(MAX_GROUP_TYPES_PER_TEAM - 1) :
              Has(event.properties, GroupKey(i)) =>
                 /\ Has(originalEvent.properties, GroupKey(i))
                 /\ GroupKeyUntouched(i)

C21_Witness ==
    /\ Finished
    /\ PersonProcessingDisabled
    /\ Invoked("processGroups")
    /\ Has(originalEvent.properties, "$groups")
    /\ Has(originalEvent.properties, "$group_0")
    /\ EnrichedProduced # {}

\* C22: every entry of $groups whose type resolved to index i has put its key
\* in $group_i; an index no type of the event resolved to leaves $group_<i> as
\* the input had it, so a type without an index sets no key; and a group row is
\* upserted exactly when the $group_type of a $groupidentify resolved to an
\* index, under that index.
C22_GroupColumns ==
    LET groups == OrEmpty(Get(event.properties, "$groups")) IN
    /\ \A l \in ColumnLookups :
          groupTypeLookups[l].index # Null =>
             Get(event.properties, GroupKey(groupTypeLookups[l].index.v))
                = groups[groupTypeLookups[l].groupType]
    /\ \A i \in 0..(MAX_GROUP_TYPES_PER_TEAM - 1) :
          (\A l \in ColumnLookups : groupTypeLookups[l].index # JNum(i)) =>
             \/ GroupKeyUntouched(i)
             \/ /\ ~shouldProcessPerson
                /\ Invoked("createKafkaEvent")
                /\ ~Has(event.properties, GroupKey(i))
    /\ \A l \in IdentifyLookups :
          IF groupTypeLookups[l].index = Null
          THEN groupUpserts = <<>> /\ ~Invoked("upsertGroup")
          ELSE /\ Len(groupUpserts) = 1
               /\ groupUpserts[1].groupTypeIndex = groupTypeLookups[l].index.v
               /\ groupUpserts[1].groupKey = Get(event.properties, "$group_key")
    /\ IdentifyLookups = {} => groupUpserts = <<>>

C22_Witness ==
    /\ Finished
    /\ originalEvent.event = "$groupidentify"
    /\ \E l \in ColumnLookups : groupTypeLookups[l].index = Null
    /\ \E l \in ColumnLookups :
          /\ groupTypeLookups[l].index # Null
          /\ Has(event.properties, GroupKey(groupTypeLookups[l].index.v))
    /\ \E l \in IdentifyLookups : groupTypeLookups[l].index = Null
    /\ EnrichedProduced # {}

\* C23 (as stated): the group row written for a $groupidentify holds every key
\* of $group_set with the event's value, every key of $group_set_once that the
\* row did not have with the event's value, and its other keys unchanged.
C23_Original ==
    LET set == OrEmpty(Get(originalEvent.properties, "$group_set"))
        setOnce == OrEmpty(Get(originalEvent.properties, "$group_set_once"))
    IN \A u \in 1..Len(groupUpserts) :
          LET row == groupUpserts[u].row IN
          /\ \A k \in DOMAIN set : Get(row, k) = set[k]
          /\ \A k \in DOMAIN setOnce \ (DOMAIN set \cup DOMAIN ExistingGroup) :
                Get(row, k) = setOnce[k]
          /\ \A k \in DOMAIN ExistingGroup \ DOMAIN set : Get(row, k) = ExistingGroup[k]

\* processHeatmaps ran for an opted-in team on a $heatmap_data that
\* extractHeatmapData rejects
HeatmapExtractionThrew ==
    /\ Invoked("processHeatmaps")
    /\ team.heatmaps_opt_in # JBool(FALSE)
    /\ extractHeatmapData(originalEvent).throws

\* C24: once the heatmap extraction has thrown, exactly one invalid_heatmap_data
\* warning with the event's uuid is queued and collected, nothing is produced
\* on the heatmaps topic, run() does not throw, and a run that is not on the
\* heatmap fast path finishes with the enriched record assembled and produced
\* once; the warning is queued in no other case.
C24_ExtractionErrorContained ==
    /\ HeatmapExtractionThrew =>
          /\ Cardinality(WarningsOfType("invalid_heatmap_data")) = 1
          /\ \A w \in WarningsOfType("invalid_heatmap_data") :
                WarningDetails(w)["eventUuid"] = JChars(originalEvent.uuid)
          /\ Cardinality({p \in WarningPromises :
                            promises[p].what = "invalid_heatmap_data"}) = 1
          /\ ProducedOn(CLICKHOUSE_HEATMAPS_KAFKA_TOPIC) = 0
          /\ outcome # "threw"
          /\ ~Has(event.properties, "$heatmap_data")
          /\ (Finished /\ originalEvent.event # "$$heatmap") =>
                /\ Invoked("createKafkaEvent")
                /\ Cardinality(EnrichedProduced) = 1
    /\ WarningsOfType("invalid_heatmap_data") # {} => HeatmapExtractionThrew

C24_Witness ==
    /\ Finished
    /\ HeatmapExtractionThrew
    /\ originalEvent.event = "$exception"
    /\ Cardinality(EnrichedProduced) = 1
    /\ Len(queued) = 1

\* C25 (as stated): for a team with anonymize_ips set, no enriched record handed
\* to the producer has a $ip key in its properties, whatever value the input
\* gave to $ip.
C25_Original ==
    \A i \in EnrichedProduced :
        team.anonymize_ips => ~Has(JSONParse(Enriched(i).properties), "$ip")

\* C26: an enriched record has person_mode force_upgrade exactly when the person
\* row that PersonState.update resolved has force_upgrade set, whether or not
\* person processing is enabled for the event.
C26_ForceUpgradeMode ==
    \A i \in EnrichedProduced :
        /\ person # Null
        /\ person.force_upgrade <=> Enriched(i).person_mode = "force_upgrade"
        /\ Enriched(i).person_id = person.uuid

C26_Witness ==
    /\ Finished
    /\ \E i \in EnrichedProduced : Enriched(i).person_mode = "force_upgrade"
    /\ ~shouldProcessPerson
    /\ originalEvent.event = "$exception"

LivePersons == {u \in PersonUuidSet : IsLive(personStore.persons[u])}
DeletedPersons == {u \in PersonUuidSet : personStore.persons[u] = DeletedPerson}
Replayed(store, ev) ==
    commitRows(store, ev, ReadRows(store, ev),
               processPersonEvent(ReadRows(store, ev), ev, NoUuid, Now(store))).store

\* C28: whatever events the workers have processed, one after the other or at
\* the same time, every distinct-id of a processed event has exactly one
\* mapping row, every mapping row points at a person that exists, and no
\* mapping row is for a distinct-id no processed event named.
C28_MappingUniqueness ==
    /\ \A d \in seenDistinctIds : Cardinality(MappingsOf(personStore, d)) = 1
    /\ \A m \in personStore.mappings :
          /\ m.person_id \in LivePersons
          /\ m.distinct_id \in seenDistinctIds
          /\ m.team_id = PersonTeamId

C28_Witness ==
    /\ seenDistinctIds = DistinctIds
    /\ DeletedPersons # {}
    /\ \E w \in Workers : personWorkers[w].error = "PersonUpdateConflict"
    /\ \E w \in Workers :
          /\ personWorkers[w].status = "busy"
          /\ personWorkers[w].ev.event \in MergeEventNames

\* C29: a step that deletes a person A is a merge into a person B that existed
\* before and exists after: every distinct-id that mapped to A or to B before
\* maps to B after, with a greater mapping version if it was A's, and the
\* version of B is greater after than before.
C29_MergePreservesMappings ==
    [][ \A a \in PersonUuidSet :
          (IsLive(personStore.persons[a]) /\ ~IsLive(personStore'.persons[a])) =>
             /\ personStore'.persons[a] = DeletedPerson
             /\ \E b \in PersonUuidSet \ {a} :
                   /\ IsLive(personStore.persons[b])
                   /\ IsLive(personStore'.persons[b])
                   /\ personStore'.persons[b].version > personStore.persons[b].version
                   /\ \A m \in personStore.mappings :
                         m.person_id \in {a, b} =>
                            \E n \in personStore'.mappings :
                               /\ n.distinct_id = m.distinct_id
                               /\ n.person_id = b
                               /\ IF m.person_id = a
                                  THEN n.version > m.version
                                  ELSE n.version = m.version
                   /\ \A n \in personStore'.mappings : n.person_id # a
      ]_vars

C29_Witness ==
    /\ Cardinality(DeletedPersons) = 1
    /\ \E b \in LivePersons :
          /\ \A d \in DistinctIds : personIdOf(personStore, d) = b
          /\ personStore.persons[b].version >= 2
    /\ \E m \in personStore.mappings : m.version > 0
    /\ \E m \in personStore.mappings : m.version = 0

\* C30: every step that changes the store leaves one on which a linking event
\* whose two distinct-ids map to the same person changes nothing when it is
\* applied, and every commit of a linking event leaves a store on which the
\* same event, applied again, changes nothing: same persons, same property
\* maps, same mappings.
C30_MergeIdempotent ==
    [][ /\ \A ev \in LinkPersonEvents :
              ( /\ personStore' # personStore
                /\ personIdOf(personStore', ev.distinct_id) # NoUuid
                /\ personIdOf(personStore', ev.distinct_id)
                      = personIdOf(personStore', ev.other) )
              => Replayed(personStore', ev) = personStore'
        /\ \A w \in Workers :
              ( /\ personWorkers[w].status = "busy"
                /\ personWorkers'[w] = IdleWorker
                /\ personWorkers[w].ev \in LinkPersonEvents )
              => Replayed(personStore', personWorkers[w].ev) = personStore'
      ]_vars

C30_Witness ==
    /\ DeletedPersons # {}
    /\ \E w \in Workers :
          /\ personWorkers[w].status = "busy"
          /\ personWorkers[w].ev.event = "$merge_dangerously"
          /\ personWorkers[w].ev.distinct_id # personWorkers[w].ev.other
          /\ personIdOf(personStore, personWorkers[w].ev.distinct_id) # NoUuid
          /\ personIdOf(personStore, personWorkers[w].ev.distinct_id)
                = personIdOf(personStore, personWorkers[w].ev.other)
          /\ personWorkers[w].read = ReadRows(personStore, personWorkers[w].ev)
          /\ personStore.persons[personIdOf(personStore, personWorkers[w].ev.distinct_id)]
                .properties # EmptyObj

\* C31: the offsets of a batch are committed only when every completion of every
\* event of the batch has settled: none is pending at the commit or after it.
C31_CommitAfterSettled ==
    consumer.position = "committed" =>
        /\ consumer.pendingHeld = 0
        /\ consumer.pendingNotHeld = 0
        /\ \A i \in 1..Len(promises) : ~Unsettled(promises[i])

\* a batch of two events, each with completions, has been committed
C31_Witness ==
    /\ consumer.position = "committed"
    /\ consumer.processed = 2
    /\ consumer.collected > Len(promises)
    /\ promises # <<>>

\* C39: a run leaves its input untouched: no step of run() changes a top-level
\* field of the event given to the constructor, or a key or value of its
\* properties map; the changes are made on the copy the runner holds.
C39_InputUntouched == [][originalEvent' = originalEvent]_vars

\* a run has ended after taking $ip or $heatmap_data off its copy and after
\* writing a group column or the person-processing override on it
C39_Witness ==
    /\ outcome \in {"returned", "threw"}
    /\ \E k \in {"$ip", "$heatmap_data"} :
          Has(originalEvent.properties, k) /\ ~Has(event.properties, k)
    /\ \E k \in {"$group_0", "$process_person_profile"} :
          Has(event.properties, k) /\ ~Has(originalEvent.properties, k)

\* the calls of stop() that went past the test of this.stopping
Performing == {i \in DOMAIN stopCalls : stopCalls[i].pc # "returned"}
\* the state of the promise a call of stop() awaited, "none" if it did not
AwaitedState(i, c) ==
    IF c \in DOMAIN stopCalls[i].awaited THEN stopCalls[i].awaited[c] ELSE "none"

\* C32: the shutdown is ordered: the producer is flushed only when pubsub.stop()
\* and every onShutdown have settled, the hub is closed only when the flush is
\* done, and the process exits only when the hub, if there is one, is closed.
C32_ShutdownOrdered ==
    \A i \in Performing :
        /\ AwaitedState(i, Flush) # "none" =>
              \A c \in Services \cup {PubsubStop} :
                 AwaitedState(i, c) \in {"none", "fulfilled", "rejected"}
        /\ AwaitedState(i, CloseHub) # "none" =>
              /\ AwaitedState(i, Flush) = "fulfilled"
              /\ \A c \in Services : AwaitedState(i, c) # "pending"
        /\ stopCalls[i].pc = "exited" =>
              \/ AwaitedState(i, CloseHub) = "fulfilled"
              \/ server.hub = Undefined /\ AwaitedState(i, Flush) = "none"

\* the process has exited after a shutdown of both services, one of which
\* rejected, a flush and a closeHub
C32_Witness ==
    /\ nodeProcess.exitCode # Undefined
    /\ \E i \in Performing :
          /\ \A s \in Services : AwaitedState(i, s) \in {"fulfilled", "rejected"}
          /\ \E s \in Services : AwaitedState(i, s) = "rejected"
          /\ AwaitedState(i, PubsubStop) # "none"
          /\ AwaitedState(i, CloseHub) = "fulfilled"

\* C34: the shutdown runs at most once: of all the calls of stop() only the
\* first goes past the test of this.stopping, and the onShutdown of a service,
\* pubsub.stop(), the flush, closeHub and process.exit are each called at most once.
C34_ShutdownOnce ==
    /\ \A i \in Performing : i = 1
    /\ \A c \in Calls : nodeProcess.invoked[c] <= 1

\* the process has exited after a shutdown of a service, with calls of stop()
\* from a signal, an uncaught exception and a failed join
C34_Witness ==
    /\ nodeProcess.exitCode # Undefined
    /\ {Undefined, ErrorOf("uncaught"), ErrorOf("task joined")}
          \subseteq {stopCalls[i].error : i \in DOMAIN stopCalls}
    /\ \E i \in DOMAIN stopCalls : i > 1 /\ stopCalls[i].pc = "returned"
    /\ \E s \in Services : nodeProcess.invoked[s] = 1
    /\ nodeProcess.invoked[CloseHub] = 1

\* C37: the exit code is 1 exactly when the call of stop() that performs the
\* shutdown was given an error, and 0 otherwise, whatever the later calls were given.
C37_ExitCode ==
    nodeProcess.exitCode # Undefined =>
        \E i \in Performing :
            /\ stopCalls[i].pc = "exited"
            /\ nodeProcess.exitCode = JNum(1) <=> stopCalls[i].error # Undefined
            /\ nodeProcess.exitCode = JNum(0) <=> stopCalls[i].error = Undefined

\* the process has exited with 0 after a signal, though a later call of stop()
\* was given an error
C37_Witness ==
    /\ nodeProcess.exitCode = JNum(0)
    /\ \E i \in DOMAIN stopCalls : stopCalls[i].pc = "returned" /\ stopCalls[i].error # Undefined

\* C35: once stop() has been called the process eventually exits, whatever
\* shutdown step fails.
C35_Original == (stopCalls # <<>>) ~> (nodeProcess.exitCode # Undefined)

\* C36: every service whose loader had completed when the server stops has its
\* onShutdown invoked by the stop, also when another loader of the same start()
\* failed and start() itself called stop().
C36_Original ==
    \A i \in Performing :
        \A s \in stopCalls[i].loaded : s \in DOMAIN stopCalls[i].awaited

\* C38: the effective configuration honours the caller: for every key present
\* both in the config given to the constructor and in defaultConfig,
\* this.config holds the caller's value.
C38_Original ==
    \A k \in DOMAIN configInputs.config \cap DOMAIN configInputs.defaultConfig :
        server.config[k] = configInputs.config[k]

====
